---- MODULE Spec2Model ----
(***************************************************************************)
(* Operator scripts over the EC2/VPC control plane.                        *)
(*                                                                         *)
(*  Spec      sequential runs of the scripts against the provider's        *)
(*            resource graph: the 'create' and the 'delete' branch of the  *)
(*            Auto VPC builder (Auto/Env/Dev/VPC/main.py + helper.py) and  *)
(*            the Manual scripts that create a security group, a key pair  *)
(*            and an instance.                                            *)
(*  SpecRace  concurrent invocations of the create-VPC path, interleaved   *)
(*            request by request.                                          *)
(*  SpecList  one call of a paginated listing function of Manual/List/EC2  *)
(*            against a result set that the provider splits into pages.    *)
(*  SpecExists one call of an existence check against a provider that      *)
(*            holds resources agreeing with some of its filters.           *)
(*                                                                         *)
(* The provider is the state behind the boto3 client `ec2`.  Every request *)
(* of a run is recorded in `log`, every line the run prints in `out`.  A   *)
(* request may fail with a ClientError, either because the provider rejects*)
(* it in its current state or because of a transport/authorisation fault   *)
(* (one such fault per behaviour).                                        *)
(***************************************************************************)
EXTENDS Integers, Sequences, FiniteSets, TLC

(***************************************************************************)
(* Bounds of the model.                                                    *)
(***************************************************************************)
\* script runs per behaviour
MaxRuns == 2
\* concurrent invocations of the create-VPC path
Invocations == 2
\* resources of a listed result set
MaxItems == 3
\* pages the provider splits a result set into
MaxPages == 3
\* characters of a diagnostic string that delete_subnets_operation iterates
MsgChars == 2
\* resources of one kind the provider holds when an existence check is called
MaxHeld == 2
\* characters of a resource name, and of a search pattern
MaxName == 2
MaxPattern == 2
\* direct calls of create_subnet
MaxCalls == 3
\* answers the operator types in one session
MaxTyped == 7
\* rules of one direction the operator asks for
MaxRules == 1

(***************************************************************************)
(* Static configuration (config.json; the Manual scripts carry the same    *)
(* values as module constants).  A tag value is a sequence of tokens, so   *)
(* that str.startswith can be computed.                                    *)
(***************************************************************************)
TAG_VPC_NAME == <<"AcmeLabs", "Dev">>
TAG_ENV == <<"Dev">>
CIDR_BLOCK == "10.0.0.0/16"
TAG_RTB == <<"AcmeLabs", "Dev", "RouteTable">>
TAG_IGW_NAME == <<"AcmeLabs", "Dev", "IGW">>
TAG_SUBNET == <<"AcmeLabs", "Dev", "Public", "Subnet">>
DEST_CIDR_BLOCK == "0.0.0.0/0"
CIDR_PUBLIC_SUBNETS == <<"10.0.1.0/24", "10.0.2.0/24", "10.0.3.0/24">>
AVAILABILITY_ZONES == <<"us-east-1a", "us-east-1b", "us-east-1c">>
TAG_SUBNETS == <<TAG_SUBNET \o <<"1">>, TAG_SUBNET \o <<"2">>, TAG_SUBNET \o <<"3">>>>
NumSubnets == Len(CIDR_PUBLIC_SUBNETS)
\* provider requests one operation can issue: the positions a fault can take
MaxCallsPerOp == 3 * NumSubnets + 2
\* the Environment tag of somebody else's resources
OTHER_ENV == <<"Prod">>
\* prompt_with_retries: the default of its second parameter
pwr_max_retries == 3

VARIABLES
  ec2,        \* the provider's resource graph
  operation,  \* main(): the branch of the current run, "none" before the first
  step,       \* main(): number of operations of the branch that have returned
  crashed,    \* the run ended in an uncaught exception
  log,        \* provider requests issued by the current run, in order
  out,        \* lines printed by the current run, in order
  runs,       \* script runs started so far
  faulted,    \* a transport/authorisation fault has hit a request
  files,      \* the .pem files of the working directory
  race,       \* SpecRace: where each concurrent invocation stands
  listing,    \* SpecList: the call of a listing function
  tty         \* SpecPrompt: the interactive session of a script

vars == <<ec2, operation, step, crashed, log, out, runs, faulted, files, race, listing, tty>>

(***************************************************************************)
(* Generic helpers.                                                        *)
(***************************************************************************)
\* LET value IN In(value), with the value computed at one place
Let(value, In(_)) == In(value)

NoFilter == [k \in {} |-> k]

StartsWith(s, p) == Len(p) <= Len(s) /\ SubSeq(s, 1, Len(p)) = p

RECURSIVE SortById(_)
SortById(S) ==
  IF S = {} THEN <<>>
  ELSE Let(CHOOSE x \in S : \A y \in S : x.id <= y.id, LAMBDA m :
          <<m>> \o SortById(S \ {m}))

Reverse(s) == [i \in 1..Len(s) |-> s[Len(s) + 1 - i]]

\* A describe response lists its matches in an order the provider chooses.
Listed(S, rev) == IF rev THEN Reverse(SortById(S)) ELSE SortById(S)

Tags(name, env) == {<<"Name", name>>, <<"Environment", env>>}

(***************************************************************************)
(* The provider: filters of the describe calls.                            *)
(***************************************************************************)
FilterHolds(r, k, v) ==
  CASE k = "cidr"               -> r.cidr = v
    [] k = "cidr-block"         -> r.cidr = v
    [] k = "tag:Name"           -> <<"Name", v>> \in r.tags
    [] k = "tag:Name*"          -> \E t \in r.tags : t[1] = "Name" /\ StartsWith(t[2], v)
    [] k = "tag:Environment"    -> <<"Environment", v>> \in r.tags
    [] k = "vpc-id"             -> r.vpc = v
    [] k = "availability-zone"  -> r.az = v
    [] k = "route-table-id"     -> r.id = v
    [] k = "group-name"         -> r.name = v
    [] k = "key-name"           -> r.name = v
    [] k = "instance-id"        -> r.id = v
    [] OTHER                    -> FALSE

Matches(r, flt) == \A k \in DOMAIN flt : FilterHolds(r, k, flt[k])

Collection(e, api) ==
  CASE api = "describe_vpcs"              -> e.vpcs
    [] api = "describe_subnets"           -> e.subnets
    [] api = "describe_route_tables"      -> e.rtbs
    [] api = "describe_internet_gateways" -> e.igws
    [] api = "describe_security_groups"   -> e.sgs
    [] api = "describe_key_pairs"         -> e.keys
    [] api = "describe_instances"         -> e.instances
    [] OTHER                              -> {}

(***************************************************************************)
(* A run's context: the provider state, the request log, the printed       *)
(* lines, the working directory and the statement of main() that is being  *)
(* executed.  F is the set of log positions at which a fault is injected.  *)
(***************************************************************************)
Faulted(c, F) == (Len(c.log) + 1) \in F

Logged(c, api, ok, inj, id, flt, n, diag) ==
  [c EXCEPT !.log = Append(@, [api |-> api, ok |-> ok, inj |-> inj, id |-> id,
                                flt |-> flt, n |-> n, diag |-> diag, step |-> c.step])]

Echo(c, msg, id) == [c EXCEPT !.out = Append(@, [msg |-> msg, id |-> id])]

Crash(c) == [c EXCEPT !.crashed = TRUE]

\* client.describe_*(Filters=flt)
Describe(c, F, api, flt) ==
  Let({r \in Collection(c.ec2, api) : Matches(r, flt)}, LAMBDA found :
     IF Faulted(c, F)
       THEN [c |-> Logged(c, api, FALSE, TRUE, 0, flt, 0, ""), err |-> TRUE, res |-> {}]
       ELSE [c |-> Logged(c, api, TRUE, FALSE, 0, flt, Cardinality(found), ""),
             err |-> FALSE, res |-> found])

\* A mutating request: `accept` is the provider's verdict on it in its current
\* state, `e2` the provider state after it when it is carried out.
Mutate(c, F, api, id, flt, diag, accept, e2, newid) ==
  IF Faulted(c, F)
    THEN [c |-> Logged(c, api, FALSE, TRUE, id, flt, 0, diag), err |-> TRUE, id |-> 0]
  ELSE IF ~accept
    THEN [c |-> Logged(c, api, FALSE, FALSE, id, flt, 0, diag), err |-> TRUE, id |-> 0]
  ELSE [c |-> [Logged(c, api, TRUE, FALSE, IF newid # 0 THEN newid ELSE id, flt, 0, diag)
                 EXCEPT !.ec2 = e2],
        err |-> FALSE, id |-> newid]

(***************************************************************************)
(* helper.py: existence checks and lookups.                                *)
(***************************************************************************)
F3(k1, v1, k2, v2, k3, v3) == (k1 :> v1) @@ (k2 :> v2) @@ (k3 :> v3)
F2(k1, v1, k2, v2) == (k1 :> v1) @@ (k2 :> v2)

\* variant: the Environment filter is left out of the query
vpc_exists_any_environment(c, F, a_cidr, a_tag_name, a_tag_env) ==
  Let(Describe(c, F, "describe_vpcs", F2("cidr", a_cidr, "tag:Name", a_tag_name)), LAMBDA d :
     IF d.err
       THEN [c |-> d.c, exists |-> FALSE, error |-> "Error checking VPC existence"]
       ELSE [c |-> d.c, exists |-> Cardinality(d.res) > 0, error |-> ""])

vpc_exists(c, F, a_cidr, a_tag_name, a_tag_env) ==
  Let(Describe(c, F, "describe_vpcs",
                    F3("cidr", a_cidr, "tag:Name", a_tag_name, "tag:Environment", a_tag_env)), LAMBDA d :
     IF d.err
       THEN [c |-> d.c, exists |-> FALSE, error |-> "Error checking VPC existence"]
       ELSE [c |-> d.c, exists |-> Cardinality(d.res) > 0, error |-> ""])

subnet_exists(c, F, b_cidr_block, b_tag_name, b_tag_env, b_vpc_id, b_availability_zone) ==
  Let(Describe(c, F, "describe_subnets",
                    F3("cidr-block", b_cidr_block, "tag:Name", b_tag_name,
                       "tag:Environment", b_tag_env)
                    @@ F2("vpc-id", b_vpc_id, "availability-zone", b_availability_zone)), LAMBDA d :
     IF d.err
       THEN [c |-> d.c, exists |-> FALSE, error |-> "Error describing subnets"]
       ELSE [c |-> d.c, exists |-> Cardinality(d.res) > 0, error |-> ""])

route_table_exists(c, F, c_tag_name, c_tag_env, c_vpc_id) ==
  Let(Describe(c, F, "describe_route_tables",
                    F3("tag:Name", c_tag_name, "tag:Environment", c_tag_env, "vpc-id", c_vpc_id)), LAMBDA d :
     IF d.err
       THEN [c |-> d.c, exists |-> FALSE]
       ELSE [c |-> d.c, exists |-> Cardinality(d.res) > 0])

internet_gateway_exists(c, F, d_tag_name, d_tag_env) ==
  Let(Describe(c, F, "describe_internet_gateways",
                    F2("tag:Name", d_tag_name, "tag:Environment", d_tag_env)), LAMBDA d :
     IF d.err
       THEN [c |-> d.c, exists |-> FALSE]
       ELSE [c |-> d.c, exists |-> Cardinality(d.res) > 0])

\* id = 0 stands for None
get_vpc_id(c, F, rev) ==
  Let(Describe(c, F, "describe_vpcs",
                    F2("tag:Name", TAG_VPC_NAME, "tag:Environment", TAG_ENV)), LAMBDA d :
     IF d.err THEN [c |-> d.c, id |-> 0, error |-> "Error checking VPC existence"]
     ELSE IF d.res # {} THEN [c |-> d.c, id |-> Listed(d.res, rev)[1].id, error |-> ""]
     ELSE [c |-> d.c, id |-> 0, error |-> "No matching VPC found."])

\* The result is one string: a route table id (diag = "") or a diagnostic text.
get_route_table_id(c, F, rev, f_tag_name) ==
  Let(Describe(c, F, "describe_route_tables", ("tag:Name" :> f_tag_name)), LAMBDA d :
     IF d.err THEN [c |-> d.c, id |-> 0, diag |-> "Client error retrieving route table ID"]
     ELSE IF d.res # {} THEN [c |-> d.c, id |-> Listed(d.res, rev)[1].id, diag |-> ""]
     ELSE [c |-> d.c, id |-> 0, diag |-> "No route table found with tag"])

get_internet_gateway_id(c, F, rev, g_tag_name) ==
  Let(Describe(c, F, "describe_internet_gateways", ("tag:Name" :> g_tag_name)), LAMBDA d :
     IF d.err THEN [c |-> d.c, id |-> 0, error |-> "Error checking Internet Gateway existence"]
     ELSE IF d.res # {} THEN [c |-> d.c, id |-> Listed(d.res, rev)[1].id, error |-> ""]
     ELSE [c |-> d.c, id |-> 0, error |-> "No Internet Gateway found with the specified tag."])

\* ids is the list of subnet ids, unless error names the diagnostic string that
\* takes its place
get_subnet_info(c, F, rev, h_tag_name_prefix) ==
  Let(Describe(c, F, "describe_subnets", ("tag:Name*" :> h_tag_name_prefix)), LAMBDA d :
  Let(Listed(d.res, rev), LAMBDA h_response :
  Let(SelectSeq(h_response,
                LAMBDA h_subnet : \E tag \in h_subnet.tags :
                                     tag[1] = "Name" /\ StartsWith(tag[2], h_tag_name_prefix)), LAMBDA keep :
     IF d.err
       THEN [c |-> d.c, ids |-> <<>>, error |-> "Client error retrieving subnet information"]
       ELSE [c |-> d.c, ids |-> [i \in 1..Len(keep) |-> keep[i].id], error |-> ""])))

\* Python's `needle in text` for the texts above, a resource id when diag = ""
Contains(diag, needle) ==
  CASE needle = "Error" -> FALSE
    [] needle = "No route table found" -> diag = "No route table found with tag"
    [] needle = "error" -> diag = "Client error retrieving route table ID"
    [] OTHER -> FALSE

\* Python's text.startswith(prefix) for the same texts
TextStartsWith(diag, prefix) ==
  prefix = "No route table found" /\ diag = "No route table found with tag"

(***************************************************************************)
(* helper.py: creation.                                                    *)
(***************************************************************************)
Fresh(e) == [e EXCEPT !.next = @ + 1]

\* variant: a provider with a uniqueness constraint, which answers a create_vpc
\* for a (CIDR, Name, Environment) it holds already with the VPC it holds
create_vpc_unique(c, F, i_cidr_block, i_tag_name, i_tag_env) ==
  Let(c.ec2, LAMBDA e :
  Let({v \in e.vpcs : v.cidr = i_cidr_block /\ v.tags = Tags(i_tag_name, i_tag_env)}, LAMBDA held :
  Let([id |-> e.next, cidr |-> i_cidr_block, tags |-> Tags(i_tag_name, i_tag_env)], LAMBDA new :
  Let(Mutate(c, F, "create_vpc", 0,
                  F3("cidr", i_cidr_block, "tag:Name", i_tag_name, "tag:Environment", i_tag_env),
                  "", TRUE,
                  IF held = {} THEN [Fresh(e) EXCEPT !.vpcs = @ \cup {new}] ELSE e,
                  IF held = {} THEN e.next ELSE (CHOOSE v \in held : TRUE).id), LAMBDA m :
     IF m.err THEN [c |-> m.c, id |-> 0, error |-> "Error creating VPC"]
     ELSE [c |-> m.c, id |-> m.id, error |-> ""]))))

create_vpc(c, F, i_cidr_block, i_tag_name, i_tag_env) ==
  Let(c.ec2, LAMBDA e :
  Let([id |-> e.next, cidr |-> i_cidr_block, tags |-> Tags(i_tag_name, i_tag_env)], LAMBDA new :
  Let(Mutate(c, F, "create_vpc", 0,
                  F3("cidr", i_cidr_block, "tag:Name", i_tag_name, "tag:Environment", i_tag_env),
                  "", TRUE, [Fresh(e) EXCEPT !.vpcs = @ \cup {new}], e.next), LAMBDA m :
     IF m.err THEN [c |-> m.c, id |-> 0, error |-> "Error creating VPC"]
     ELSE [c |-> m.c, id |-> m.id, error |-> ""])))

create_subnet(c, F, rev, j_cidr_block, j_azs, j_tag_name, j_tag_env) ==
  Let(get_vpc_id(c, F, rev), LAMBDA v :
  Let(subnet_exists(v.c, F, j_cidr_block, j_tag_name, j_tag_env, v.id, j_azs), LAMBDA x :
  Let(x.c.ec2, LAMBDA e :
  Let([id |-> e.next, vpc |-> v.id, cidr |-> j_cidr_block, az |-> j_azs,
              tags |-> Tags(j_tag_name, TAG_ENV)], LAMBDA new :
  Let(         (/\ \E w \in e.vpcs : w.id = v.id
                /\ ~\E s \in e.subnets : s.vpc = v.id /\ s.cidr = j_cidr_block), LAMBDA accept :
  Let(Mutate(x.c, F, "create_subnet", 0,
                  F3("cidr-block", j_cidr_block, "tag:Name", j_tag_name,
                     "tag:Environment", TAG_ENV)
                  @@ F2("vpc-id", v.id, "availability-zone", j_azs),
                  "", accept, [Fresh(e) EXCEPT !.subnets = @ \cup {new}], e.next), LAMBDA m :
     IF v.error # "" THEN [c |-> v.c, id |-> 0, error |-> v.error]
     ELSE IF x.error # "" THEN [c |-> x.c, id |-> 0, error |-> x.error]
     ELSE IF x.exists THEN [c |-> x.c, id |-> 0, error |-> "Subnet Exists"]
     ELSE IF m.err THEN [c |-> m.c, id |-> 0, error |-> "Error creating subnet"]
     ELSE [c |-> m.c, id |-> m.id, error |-> ""]))))))

\* one call of the loop body of associate_route_table
associate_one(c, F, k_subnet, k_rtb) ==
  Let(c.ec2, LAMBDA e :
  Let([id |-> e.next, rtb |-> k_rtb.id, subnet |-> k_subnet, main |-> FALSE], LAMBDA new :
  Let(         (/\ k_rtb.diag = ""
                /\ \E t \in e.rtbs : /\ t.id = k_rtb.id
                                     /\ \E s \in e.subnets : s.id = k_subnet /\ s.vpc = t.vpc
                /\ ~\E a \in e.assocs : a.subnet = k_subnet), LAMBDA accept :
  Let(Mutate(c, F, "associate_route_table", k_rtb.id, ("subnet-id" :> k_subnet),
                  k_rtb.diag, accept, [Fresh(e) EXCEPT !.assocs = @ \cup {new}], e.next), LAMBDA m :
     [c |-> m.c, result |-> <<k_subnet, ~m.err>>]))))

\* variant: the loop is left at the first association that fails
RECURSIVE associate_loop_until_failure(_, _, _, _, _)
associate_loop_until_failure(c, F, k_subnets, k_rtb, k_results) ==
  IF k_subnets = <<>> THEN [c |-> c, results |-> k_results]
  ELSE Let(associate_one(c, F, Head(k_subnets), k_rtb), LAMBDA r :
          IF r.result[2]
            THEN associate_loop_until_failure(r.c, F, Tail(k_subnets), k_rtb,
                                              Append(k_results, r.result))
            ELSE [c |-> r.c, results |-> Append(k_results, r.result)])

RECURSIVE associate_loop(_, _, _, _, _)
associate_loop(c, F, k_subnets, k_rtb, k_results) ==
  IF k_subnets = <<>> THEN [c |-> c, results |-> k_results]
  ELSE Let(associate_one(c, F, Head(k_subnets), k_rtb), LAMBDA r :
          associate_loop(r.c, F, Tail(k_subnets), k_rtb, Append(k_results, r.result)))

\* each result pairs the subnet id with TRUE (a response) or FALSE (an error text)
associate_route_table(c, F, k_subnets, k_rtb) ==
  associate_loop(c, F, k_subnets, k_rtb, <<>>)

\* variant: the Environment tag is left out of the TagSpecifications
create_internet_gateway_name_only(c, F) ==
  Let(c.ec2, LAMBDA e :
  Let([id |-> e.next, tags |-> {<<"Name", TAG_IGW_NAME>>}, vpc |-> 0], LAMBDA new :
  Let(Mutate(c, F, "create_internet_gateway", 0,
                  F2("tag:Name", TAG_IGW_NAME, "tag:Environment", TAG_ENV),
                  "", TRUE, [Fresh(e) EXCEPT !.igws = @ \cup {new}], e.next), LAMBDA m :
     IF m.err THEN [c |-> m.c, id |-> 0, error |-> "Error creating Internet Gateway"]
     ELSE [c |-> m.c, id |-> m.id, error |-> ""])))

create_internet_gateway(c, F) ==
  Let(c.ec2, LAMBDA e :
  Let([id |-> e.next, tags |-> Tags(TAG_IGW_NAME, TAG_ENV), vpc |-> 0], LAMBDA new :
  Let(Mutate(c, F, "create_internet_gateway", 0,
                  F2("tag:Name", TAG_IGW_NAME, "tag:Environment", TAG_ENV),
                  "", TRUE, [Fresh(e) EXCEPT !.igws = @ \cup {new}], e.next), LAMBDA m :
     IF m.err THEN [c |-> m.c, id |-> 0, error |-> "Error creating Internet Gateway"]
     ELSE [c |-> m.c, id |-> m.id, error |-> ""])))

attach_internet_gateway(c, F, m_vpc_id, m_igw_id) ==
  Let(c.ec2, LAMBDA e :
  Let(         (/\ \E v \in e.vpcs : v.id = m_vpc_id
                /\ \E g \in e.igws : g.id = m_igw_id /\ g.vpc = 0
                /\ ~\E g \in e.igws : g.vpc = m_vpc_id), LAMBDA accept :
  Let(Mutate(c, F, "attach_internet_gateway", m_igw_id, ("vpc-id" :> m_vpc_id), "",
                  accept,
                  [e EXCEPT !.igws = {IF g.id = m_igw_id THEN [g EXCEPT !.vpc = m_vpc_id]
                                                         ELSE g : g \in @}], 0), LAMBDA m :
     [c |-> m.c, success |-> ~m.err])))

create_route(c, F, n_dest_cidr_block, n_igw_id, n_rtb_id) ==
  Let(c.ec2, LAMBDA e :
  Let(         (/\ n_rtb_id.diag = ""
                /\ \E t \in e.rtbs : /\ t.id = n_rtb_id.id
                                     /\ \E g \in e.igws : g.id = n_igw_id /\ g.vpc = t.vpc
                /\ ~\E r \in e.routes : r.rtb = n_rtb_id.id /\ r.dest = n_dest_cidr_block), LAMBDA accept :
  Let(Mutate(c, F, "create_route", n_rtb_id.id,
                  F2("destination-cidr-block", n_dest_cidr_block, "gateway-id", n_igw_id),
                  n_rtb_id.diag, accept,
                  [e EXCEPT !.routes = @ \cup {[rtb |-> n_rtb_id.id, dest |-> n_dest_cidr_block,
                                                gw |-> n_igw_id]}], 0), LAMBDA m :
     IF m.err THEN [c |-> m.c, id |-> 0, error |-> "Error creating route"]
     ELSE [c |-> m.c, id |-> n_rtb_id.id, error |-> ""])))

(***************************************************************************)
(* helper.py: deletion.                                                    *)
(***************************************************************************)
delete_route(c, F, o_rtb_id, o_dest_cidr_block) ==
  Let(c.ec2, LAMBDA e :
  Let({r \in e.routes : r.rtb = o_rtb_id.id /\ r.dest = o_dest_cidr_block}, LAMBDA hit :
  Let(Mutate(c, F, "delete_route", o_rtb_id.id,
                  ("destination-cidr-block" :> o_dest_cidr_block), o_rtb_id.diag,
                  o_rtb_id.diag = "" /\ hit # {}, [e EXCEPT !.routes = @ \ hit], 0), LAMBDA m :
     IF m.err THEN [c |-> m.c, msg |-> "Client error deleting route"]
     ELSE [c |-> m.c, msg |-> "Route deleted successfully"])))

detach_internet_gateway(c, F, p_igw_id, p_vpc_id) ==
  Let(c.ec2, LAMBDA e :
  Let(Mutate(c, F, "detach_internet_gateway", p_igw_id, ("vpc-id" :> p_vpc_id), "",
                  \E g \in e.igws : g.id = p_igw_id /\ g.vpc = p_vpc_id,
                  [e EXCEPT !.igws = {IF g.id = p_igw_id THEN [g EXCEPT !.vpc = 0]
                                                         ELSE g : g \in @}], 0), LAMBDA m :
     IF m.err THEN [c |-> m.c, msg |-> "Client error detaching Internet Gateway"]
     ELSE [c |-> m.c, msg |-> "Internet Gateway detached successfully"]))

delete_internet_gateway(c, F, q_igw_id) ==
  Let(c.ec2, LAMBDA e :
  Let(Mutate(c, F, "delete_internet_gateway", q_igw_id, NoFilter, "",
                  \E g \in e.igws : g.id = q_igw_id /\ g.vpc = 0,
                  [e EXCEPT !.igws = {g \in @ : g.id # q_igw_id}], 0), LAMBDA m :
     IF m.err THEN [c |-> m.c, msg |-> "Error deleting Internet Gateway"]
     ELSE [c |-> m.c, msg |-> "Internet Gateway deleted successfully"]))

\* variant: the loop is left after the first association it has removed
RECURSIVE disassociate_loop_first_only(_, _, _, _)
disassociate_loop_first_only(c, F, r_associations, r_disassociation_count) ==
  IF r_associations = <<>>
    THEN [c |-> c, count |-> r_disassociation_count, raised |-> FALSE]
  ELSE Let(Head(r_associations), LAMBDA r_response :
       Let(c.ec2, LAMBDA e :
       Let(Mutate(c, F, "disassociate_route_table", r_response.id, NoFilter, "",
                       \E a \in e.assocs : a.id = r_response.id /\ ~a.main,
                       [e EXCEPT !.assocs = {a \in @ : a.id # r_response.id}], 0), LAMBDA m :
          IF r_response.main
            THEN disassociate_loop_first_only(c, F, Tail(r_associations),
                                              r_disassociation_count)
          ELSE IF m.err
            THEN [c |-> m.c, count |-> r_disassociation_count, raised |-> TRUE]
          ELSE [c |-> m.c, count |-> r_disassociation_count + 1, raised |-> FALSE])))

\* variant: the loop without its test of r_response['Main']
RECURSIVE disassociate_loop_every(_, _, _, _)
disassociate_loop_every(c, F, r_associations, r_disassociation_count) ==
  IF r_associations = <<>>
    THEN [c |-> c, count |-> r_disassociation_count, raised |-> FALSE]
  ELSE Let(Head(r_associations), LAMBDA r_response :
       Let(c.ec2, LAMBDA e :
       Let(Mutate(c, F, "disassociate_route_table", r_response.id, NoFilter, "",
                       \E a \in e.assocs : a.id = r_response.id /\ ~a.main,
                       [e EXCEPT !.assocs = {a \in @ : a.id # r_response.id}], 0), LAMBDA m :
          IF m.err
            THEN [c |-> m.c, count |-> r_disassociation_count, raised |-> TRUE]
          ELSE disassociate_loop_every(m.c, F, Tail(r_associations),
                                       r_disassociation_count + 1))))

\* the loop over r_associations; an exception leaves it at once
RECURSIVE disassociate_loop(_, _, _, _)
disassociate_loop(c, F, r_associations, r_disassociation_count) ==
  IF r_associations = <<>>
    THEN [c |-> c, count |-> r_disassociation_count, raised |-> FALSE]
  ELSE Let(Head(r_associations), LAMBDA r_response :
       Let(c.ec2, LAMBDA e :
       Let(Mutate(c, F, "disassociate_route_table", r_response.id, NoFilter, "",
                       \E a \in e.assocs : a.id = r_response.id /\ ~a.main,
                       [e EXCEPT !.assocs = {a \in @ : a.id # r_response.id}], 0), LAMBDA m :
          IF r_response.main
            THEN disassociate_loop(c, F, Tail(r_associations), r_disassociation_count)
          ELSE IF m.err
            THEN [c |-> m.c, count |-> r_disassociation_count, raised |-> TRUE]
          ELSE disassociate_loop(m.c, F, Tail(r_associations), r_disassociation_count + 1))))

disassociate_subnets_from_route_table(c, F, rev, r_tag_name) ==
  Let(get_route_table_id(c, F, rev, r_tag_name), LAMBDA r :
      \* client.describe_route_tables(RouteTableIds=[r_route_table_id])
      Let(("route-table-id" :> r.id), LAMBDA byId :
  Let(IF r.diag # ""
             THEN [c |-> Logged(r.c, "describe_route_tables", FALSE, Faulted(r.c, F), 0,
                                NoFilter, 0, r.diag),
                   err |-> TRUE, res |-> {}]
             ELSE Describe(r.c, F, "describe_route_tables", byId), LAMBDA d :
  Let(Listed({a \in d.c.ec2.assocs : a.rtb = r.id}, rev), LAMBDA r_associations :
  Let(disassociate_loop(d.c, F, r_associations, 0), LAMBDA l :
     IF TextStartsWith(r.diag, "No route table found")
       THEN [c |-> r.c, msg |-> r.diag, count |-> 0]
     ELSE IF d.err
       THEN [c |-> d.c, msg |-> "Client error disassociating subnet from route table",
             count |-> 0]
     ELSE IF l.raised
       THEN [c |-> l.c, msg |-> "Client error disassociating subnet from route table",
             count |-> l.count]
     ELSE IF l.count > 0
       THEN [c |-> l.c, msg |-> "Successfully disassociated", count |-> l.count]
     ELSE [c |-> l.c, msg |-> "No non-main subnets found", count |-> 0])))))

delete_route_table(c, F, s_rtb_id) ==
  Let(c.ec2, LAMBDA e :
  Let(Mutate(c, F, "delete_route_table", s_rtb_id.id, NoFilter, s_rtb_id.diag,
                  /\ s_rtb_id.diag = ""
                  /\ \E t \in e.rtbs : t.id = s_rtb_id.id
                  /\ ~\E a \in e.assocs : a.rtb = s_rtb_id.id,
                  [e EXCEPT !.rtbs = {t \in @ : t.id # s_rtb_id.id},
                            !.routes = {r \in @ : r.rtb # s_rtb_id.id}], 0), LAMBDA m :
     IF m.err THEN [c |-> m.c, msg |-> "Client error deleting route table"]
     ELSE [c |-> m.c, msg |-> "Route Table deleted successfully"]))

\* client.delete_subnet(SubnetId=...) of delete_subnets_operation; bogus marks an
\* argument that is no subnet id
delete_subnet(c, F, subnet_id, bogus) ==
  Let(c.ec2, LAMBDA e :
     Mutate(c, F, "delete_subnet", subnet_id, NoFilter,
            IF bogus THEN "Client error retrieving subnet information" ELSE "",
            /\ ~bogus
            /\ \E s \in e.subnets : s.id = subnet_id
            /\ ~\E i \in e.instances : i.subnet = subnet_id,
            [e EXCEPT !.subnets = {s \in @ : s.id # subnet_id},
                      !.assocs = {a \in @ : a.subnet # subnet_id}], 0))

\* the result is the HTTP status code (status = TRUE) or an error text
delete_vpc(c, F, t_vpc_id) ==
  Let(c.ec2, LAMBDA e :
  Let({t \in e.rtbs : t.vpc = t_vpc_id /\ \E a \in e.assocs : a.rtb = t.id /\ a.main}, LAMBDA mainTables :
  Let({t.id : t \in mainTables}, LAMBDA mainIds :
  Let(Mutate(c, F, "delete_vpc", t_vpc_id, NoFilter, "",
                  /\ \E v \in e.vpcs : v.id = t_vpc_id
                  /\ ~\E s \in e.subnets : s.vpc = t_vpc_id
                  /\ ~\E g \in e.igws : g.vpc = t_vpc_id
                  /\ ~\E g \in e.sgs : g.vpc = t_vpc_id
                  /\ ~\E t \in e.rtbs : t.vpc = t_vpc_id /\ t \notin mainTables,
                  [e EXCEPT !.vpcs = {v \in @ : v.id # t_vpc_id},
                            !.rtbs = @ \ mainTables,
                            !.assocs = {a \in @ : a.rtb \notin mainIds},
                            !.routes = {r \in @ : r.rtb \notin mainIds}], 0), LAMBDA m :
     IF m.err THEN [c |-> m.c, status |-> FALSE, msg |-> "Error deleting VPC"]
     ELSE [c |-> m.c, status |-> TRUE, msg |-> ""]))))

(***************************************************************************)
(* main.py: the operations of the 'create' branch.                         *)
(***************************************************************************)
\* variant: the VPC is created whatever vpc_exists answers
create_vpc_operation_ungated(c, F) ==
  Let(vpc_exists(c, F, CIDR_BLOCK, TAG_VPC_NAME, TAG_ENV), LAMBDA x :
  Let(create_vpc(x.c, F, CIDR_BLOCK, TAG_VPC_NAME, TAG_ENV), LAMBDA n :
     IF n.error # "" THEN Echo(n.c, "Error: Error creating VPC", 0)
     ELSE Echo(n.c, "VPC Details", n.id)))

create_vpc_operation(c, F) ==
  Let(vpc_exists(c, F, CIDR_BLOCK, TAG_VPC_NAME, TAG_ENV), LAMBDA x :
  Let(create_vpc(x.c, F, CIDR_BLOCK, TAG_VPC_NAME, TAG_ENV), LAMBDA n :
     IF x.exists THEN Echo(x.c, "VPC Exits", 0)
     ELSE IF n.error # "" THEN Echo(n.c, "Error: Error creating VPC", 0)
     ELSE Echo(n.c, "VPC Details", n.id)))

RECURSIVE create_subnet_loop(_, _, _, _)
create_subnet_loop(c, F, rev, i) ==
  IF i > NumSubnets THEN c
  ELSE Let(create_subnet(c, F, rev, CIDR_PUBLIC_SUBNETS[i], AVAILABILITY_ZONES[i],
                              TAG_SUBNETS[i], TAG_ENV), LAMBDA r :
          create_subnet_loop(IF r.error # "" THEN Echo(r.c, r.error, 0)
                             ELSE Echo(r.c, "Created Subnet ID", r.id),
                             F, rev, i + 1))

create_subnet_operation(c, F, rev) == create_subnet_loop(c, F, rev, 1)

create_route_table_operation(c, F, rev) ==
  Let(get_vpc_id(c, F, rev), LAMBDA v :
  Let(route_table_exists(v.c, F, TAG_RTB, TAG_ENV, v.id), LAMBDA x :
  Let(x.c.ec2, LAMBDA e :
  Let([id |-> e.next, vpc |-> v.id, tags |-> Tags(TAG_RTB, TAG_ENV)], LAMBDA new :
  Let(Mutate(x.c, F, "create_route_table", 0,
                  F3("tag:Name", TAG_RTB, "tag:Environment", TAG_ENV, "vpc-id", v.id), "",
                  \E w \in e.vpcs : w.id = v.id,
                  [Fresh(e) EXCEPT !.rtbs = @ \cup {new}], e.next), LAMBDA m :
     \* vpc_id[0] is None: the filter value is refused before a request is sent,
     \* with an exception that route_table_exists does not catch
     IF v.id = 0 THEN Crash(v.c)
     ELSE IF x.exists THEN Echo(x.c, "RouteTable Exits", v.id)
     ELSE IF m.err THEN Crash(m.c)
     ELSE Echo(m.c, "RouteTable Created", m.id))))))

RECURSIVE EchoEach(_, _, _)
EchoEach(c, msgs, ids) ==
  IF ids = <<>> THEN c ELSE EchoEach(Echo(c, Head(msgs), Head(ids)), Tail(msgs), Tail(ids))

associate_subnets_operation(c, F, rev) ==
  Let(get_route_table_id(c, F, rev, TAG_RTB), LAMBDA r :
  Let(get_subnet_info(r.c, F, rev, TAG_SUBNET), LAMBDA s :
  Let(EchoEach(s.c, [i \in 1..Len(s.ids) |-> "Subnet Found"], s.ids), LAMBDA found :
  Let(associate_route_table(found, F, s.ids, [id |-> r.id, diag |-> r.diag]), LAMBDA a :
     IF Contains(r.diag, "Error") THEN Echo(r.c, "Error: route table", 0)
     ELSE IF s.error # "" THEN Echo(s.c, "Error: subnet information", 0)
     ELSE IF s.ids = <<>> THEN Echo(s.c, "Error: No subnets found with the specified tag.", 0)
     ELSE EchoEach(a.c,
                   [i \in 1..Len(a.results) |->
                      IF a.results[i][2] THEN "Successfully associated"
                      ELSE "Error: Failed to associate"],
                   [i \in 1..Len(a.results) |-> a.results[i][1]])))))

\* variant: a failed create_internet_gateway is tried once more
create_internet_gateway_operation_retrying(c, F) ==
  Let(internet_gateway_exists(c, F, TAG_IGW_NAME, TAG_ENV), LAMBDA x :
  Let(create_internet_gateway(x.c, F), LAMBDA n :
  Let(create_internet_gateway(n.c, F), LAMBDA again :
     IF x.exists THEN Echo(x.c, "Internet Gateway already exists", 0)
     ELSE IF n.error = "" THEN Echo(n.c, "Internet Gateway created with ID", n.id)
     ELSE IF again.error # "" THEN Echo(again.c, "Error: Error creating Internet Gateway", 0)
     ELSE Echo(again.c, "Internet Gateway created with ID", again.id))))

\* variant: the gateway is created whatever internet_gateway_exists answers
create_internet_gateway_operation_ungated(c, F) ==
  Let(internet_gateway_exists(c, F, TAG_IGW_NAME, TAG_ENV), LAMBDA x :
  Let(create_internet_gateway(x.c, F), LAMBDA n :
     IF n.error # "" THEN Echo(n.c, "Error: Error creating Internet Gateway", 0)
     ELSE Echo(n.c, "Internet Gateway created with ID", n.id)))

create_internet_gateway_operation(c, F) ==
  Let(internet_gateway_exists(c, F, TAG_IGW_NAME, TAG_ENV), LAMBDA x :
  Let(create_internet_gateway(x.c, F), LAMBDA n :
     IF x.exists THEN Echo(x.c, "Internet Gateway already exists", 0)
     ELSE IF n.error # "" THEN Echo(n.c, "Error: Error creating Internet Gateway", 0)
     ELSE Echo(n.c, "Internet Gateway created with ID", n.id)))

attach_internet_gateway_operation(c, F, rev) ==
  Let(get_vpc_id(c, F, rev), LAMBDA v :
  Let(get_internet_gateway_id(v.c, F, rev, TAG_IGW_NAME), LAMBDA g :
  Let(attach_internet_gateway(g.c, F, v.id, g.id), LAMBDA a :
     IF v.error # "" THEN Echo(v.c, "Error: VPC", 0)
     ELSE IF g.error # "" THEN Echo(g.c, "Error: Internet Gateway", 0)
     ELSE IF ~a.success THEN Echo(a.c, "Error: Error attaching Internet Gateway", 0)
     ELSE Echo(a.c, "Internet Gateway successfully attached to VPC", v.id))))

create_route_operation(c, F, rev) ==
  Let(get_internet_gateway_id(c, F, rev, TAG_IGW_NAME), LAMBDA g :
  Let(get_route_table_id(g.c, F, rev, TAG_RTB), LAMBDA r :
  Let(create_route(r.c, F, DEST_CIDR_BLOCK, g.id, [id |-> r.id, diag |-> r.diag]), LAMBDA n :
     IF g.error # "" THEN Echo(g.c, "Error: Internet Gateway", 0)
     ELSE IF Contains(r.diag, "No route table found") THEN Echo(r.c, "Error: route table", 0)
     ELSE IF n.error # "" THEN Echo(n.c, "Error: Error creating route", 0)
     ELSE Echo(n.c, "Route created successfully", n.id))))

(***************************************************************************)
(* main.py: the operations of the 'delete' branch.                         *)
(***************************************************************************)
\* variant: the associations are removed before the route is deleted
delete_route_after_disassociation(c, F, rev) ==
  Let(disassociate_subnets_from_route_table(c, F, rev, TAG_RTB), LAMBDA s :
  Let(get_route_table_id(s.c, F, rev, TAG_RTB), LAMBDA r :
  Let(delete_route(r.c, F, [id |-> r.id, diag |-> r.diag], DEST_CIDR_BLOCK), LAMBDA d :
     IF Contains(r.diag, "No route table found") THEN Echo(r.c, "Error: route table", 0)
     ELSE Echo(d.c, d.msg, r.id))))

delete_route_operation(c, F, rev) ==
  Let(get_route_table_id(c, F, rev, TAG_RTB), LAMBDA r :
  Let(delete_route(r.c, F, [id |-> r.id, diag |-> r.diag], DEST_CIDR_BLOCK), LAMBDA d :
     IF Contains(r.diag, "No route table found") THEN Echo(r.c, "Error: route table", 0)
     ELSE Echo(d.c, d.msg, r.id)))

\* variant: the operation is not attempted once a request of the run has failed
detach_internet_gateway_unless_failed(c, F, rev) ==
  Let(get_vpc_id(c, F, rev), LAMBDA v :
  Let(get_internet_gateway_id(v.c, F, rev, TAG_IGW_NAME), LAMBDA g :
  Let(detach_internet_gateway(g.c, F, g.id, v.id), LAMBDA d :
     IF \E i \in DOMAIN c.log : ~c.log[i].ok THEN c
     ELSE IF v.error # "" THEN Echo(v.c, "Error: VPC", 0)
     ELSE IF g.error # "" THEN Echo(g.c, "Error: Internet Gateway", 0)
     ELSE Echo(d.c, d.msg, g.id))))

detach_internet_gateway_operation(c, F, rev) ==
  Let(get_vpc_id(c, F, rev), LAMBDA v :
  Let(get_internet_gateway_id(v.c, F, rev, TAG_IGW_NAME), LAMBDA g :
  Let(detach_internet_gateway(g.c, F, g.id, v.id), LAMBDA d :
     IF v.error # "" THEN Echo(v.c, "Error: VPC", 0)
     ELSE IF g.error # "" THEN Echo(g.c, "Error: Internet Gateway", 0)
     ELSE Echo(d.c, d.msg, g.id))))

\* variant: the gateway is looked up and reported, and left at the provider
delete_internet_gateway_operation_dry(c, F, rev) ==
  Let(get_internet_gateway_id(c, F, rev, TAG_IGW_NAME), LAMBDA g :
     IF g.error # "" THEN Echo(g.c, "Error: Internet Gateway", 0)
     ELSE Echo(g.c, "Internet Gateway deleted successfully", g.id))

delete_internet_gateway_operation(c, F, rev) ==
  Let(get_internet_gateway_id(c, F, rev, TAG_IGW_NAME), LAMBDA g :
  Let(delete_internet_gateway(g.c, F, g.id), LAMBDA d :
     IF g.error # "" THEN Echo(g.c, "Error: Internet Gateway", 0)
     ELSE Echo(d.c, d.msg, g.id)))

disassociate_subnets_operation(c, F, rev) ==
  Let(disassociate_subnets_from_route_table(c, F, rev, TAG_RTB), LAMBDA d :
     Echo(d.c, d.msg, d.count))

delete_route_table_operation(c, F, rev) ==
  Let(get_route_table_id(c, F, rev, TAG_RTB), LAMBDA r :
  Let(delete_route_table(r.c, F, [id |-> r.id, diag |-> r.diag]), LAMBDA d :
     IF Contains(r.diag, "No route table found") \/ Contains(r.diag, "error")
       THEN Echo(r.c, "Error: route table", 0)
     ELSE Echo(d.c, d.msg, r.id)))

RECURSIVE delete_subnet_loop(_, _, _, _)
delete_subnet_loop(c, F, subnet_ids, bogus) ==
  IF subnet_ids = <<>> THEN c
  ELSE Let(delete_subnet(c, F, Head(subnet_ids), bogus), LAMBDA d :
          delete_subnet_loop(IF d.err THEN Echo(d.c, "Error: Failed to delete Subnet ID",
                                                 Head(subnet_ids))
                             ELSE Echo(d.c, "Deleted Subnet ID", Head(subnet_ids)),
                             F, Tail(subnet_ids), bogus))

delete_subnets_operation(c, F, rev) ==
  Let(get_subnet_info(c, F, rev, TAG_SUBNET), LAMBDA s :
      \* when subnet_ids is the diagnostic string, both loops run over its characters
      Let([i \in 1..MsgChars |-> 0], LAMBDA chars :
  Let(IF s.error # "" THEN chars ELSE s.ids, LAMBDA subnet_ids :
  Let(IF subnet_ids # <<>>
                  THEN EchoEach(s.c, [i \in 1..Len(subnet_ids) |-> "Subnet ID"], subnet_ids)
                  ELSE Echo(s.c, "Error: No subnets found or an error occurred.", 0), LAMBDA listed :
     delete_subnet_loop(listed, F, subnet_ids, s.error # "")))))

\* variant: the result of delete_vpc is not inspected
delete_vpc_operation_unchecked(c, F, rev) ==
  Let(get_vpc_id(c, F, rev), LAMBDA v :
  Let(delete_vpc(v.c, F, v.id), LAMBDA d :
     IF v.error # "" THEN Echo(v.c, "Error: VPC", 0)
     ELSE IF v.id # 0 THEN Echo(d.c, "VPC deleted successfully", v.id)
     ELSE Echo(v.c, "Error: No VPC to delete.", 0)))

delete_vpc_operation(c, F, rev) ==
  Let(get_vpc_id(c, F, rev), LAMBDA v :
  Let(delete_vpc(v.c, F, v.id), LAMBDA d :
     IF v.error # "" THEN Echo(v.c, "Error: VPC", 0)
     ELSE IF v.id # 0
       THEN IF d.status THEN Echo(d.c, "VPC deleted successfully", v.id)
            ELSE Echo(d.c, "Error: Error deleting VPC", v.id)
     ELSE Echo(v.c, "Error: No VPC to delete.", 0)))

(***************************************************************************)
(* Manual/Create/EC2/ec2_create_security_group.py.  The operator answers   *)
(* every prompt and declines the ingress and egress rules.                 *)
(***************************************************************************)
security_group_exists(c, F, sge_group_name, sge_vpc_id) ==
  Let(Describe(c, F, "describe_security_groups",
                    F2("group-name", sge_group_name, "vpc-id", sge_vpc_id)), LAMBDA d :
     IF d.err
       THEN [c |-> Echo(d.c, "An error occurred while checking for security group existence", 0),
             exists |-> FALSE]
       ELSE [c |-> d.c, exists |-> Cardinality(d.res) > 0])

create_security_group(c, F, csg_group_name, csg_vpc_id) ==
  Let(c.ec2, LAMBDA e :
  Let([id |-> e.next, name |-> csg_group_name, vpc |-> csg_vpc_id, tags |-> {}], LAMBDA new :
  Let(Mutate(c, F, "create_security_group", 0,
                  F2("group-name", csg_group_name, "vpc-id", csg_vpc_id), "",
                  /\ \E v \in e.vpcs : v.id = csg_vpc_id
                  /\ ~\E g \in e.sgs : g.name = csg_group_name /\ g.vpc = csg_vpc_id,
                  [Fresh(e) EXCEPT !.sgs = @ \cup {new}], e.next), LAMBDA m :
     IF m.err THEN [c |-> m.c, id |-> 0,
                    error |-> "An error occurred while creating security group"]
     ELSE [c |-> m.c, id |-> m.id, error |-> ""])))

tag_security_group(c, F, tsg_group_id, tsg_tag_value) ==
  Let(c.ec2, LAMBDA e :
  Let(Mutate(c, F, "create_tags", tsg_group_id, ("tag:Name" :> tsg_tag_value), "",
                  \E g \in e.sgs : g.id = tsg_group_id,
                  [e EXCEPT !.sgs = {IF g.id = tsg_group_id
                                       THEN [g EXCEPT !.tags = @ \cup {<<"Name", tsg_tag_value>>}]
                                       ELSE g : g \in @}], 0), LAMBDA m :
     IF m.err THEN [c |-> m.c, msg |-> "An error occurred while tagging security group"]
     ELSE [c |-> m.c, msg |-> "Security group tagged successfully."]))

security_group_main(c, F, group_name, vpc_id, tag_value) ==
  Let(security_group_exists(c, F, group_name, vpc_id), LAMBDA x :
  Let(create_security_group(x.c, F, group_name, vpc_id), LAMBDA response :
  Let(tag_security_group(response.c, F, response.id, tag_value), LAMBDA tagged_value :
     IF x.exists THEN Echo(x.c, "Security group already exists in VPC", vpc_id)
     ELSE IF response.error # "" THEN Echo(response.c, response.error, 0)
     ELSE Echo(Echo(tagged_value.c, tagged_value.msg, response.id),
               "Security Group Created", response.id))))

(***************************************************************************)
(* Manual/Create/EC2/ec2_create_key_pair.py                                *)
(***************************************************************************)
\* describe_key_pairs(KeyNames=[...]) answers an unknown name with the error
\* InvalidKeyPair.NotFound
key_pair_exists(c, F, kpe_key_name) ==
  Let({k \in c.ec2.keys : k.name = kpe_key_name}, LAMBDA found :
  Let(("key-name" :> kpe_key_name), LAMBDA byName :
     IF Faulted(c, F)
       THEN [c |-> Echo(Logged(c, "describe_key_pairs", FALSE, TRUE, 0, byName, 0, ""),
                        "Error checking key pair existence", 0),
             exists |-> FALSE]
     ELSE IF found = {}
       THEN [c |-> Logged(c, "describe_key_pairs", FALSE, FALSE, 0, byName, 0,
                          "InvalidKeyPair.NotFound"),
             exists |-> FALSE]
     ELSE [c |-> Logged(c, "describe_key_pairs", TRUE, FALSE, 0, byName,
                        Cardinality(found), ""),
           exists |-> TRUE]))

save_private_key_to_file(c, spktf_key_name, spktf_private_key) ==
  Echo([c EXCEPT !.files = {f \in @ : f.name # spktf_key_name}
                           \cup {[name |-> spktf_key_name, mode |-> "0o400",
                                  key |-> spktf_private_key]}],
       "Private key saved to", spktf_private_key)

create_key_pair(c, F, ckp_key_name) ==
  Let(c.ec2, LAMBDA e :
  Let([id |-> e.next, name |-> ckp_key_name, tags |-> {<<"Name", ckp_key_name>>}], LAMBDA new :
  Let(Mutate(c, F, "create_key_pair", 0, ("key-name" :> ckp_key_name), "",
                  ~\E k \in e.keys : k.name = ckp_key_name,
                  [Fresh(e) EXCEPT !.keys = @ \cup {new}], e.next), LAMBDA m :
     IF m.err
       THEN [c |-> Echo(m.c, IF Faulted(c, F) THEN "Failed to create key pair"
                             ELSE "Key pair already exists in AWS.", 0),
             id |-> 0]
       ELSE [c |-> save_private_key_to_file(m.c, ckp_key_name, m.id), id |-> m.id])))

local_key_exists(c, lke_key_name) == \E f \in c.files : f.name = lke_key_name

key_pair_main(c, F, key_name) ==
  Let(key_pair_exists(c, F, key_name), LAMBDA x :
  Let(IF local_key_exists(x.c, key_name)
                   THEN Echo([x.c EXCEPT !.files = {f \in @ : f.name # key_name}],
                             "Local key pair has been deleted.", 0)
                   ELSE x.c, LAMBDA removed :
  Let(create_key_pair(removed, F, key_name), LAMBDA response :
     IF x.exists THEN Echo(x.c, "Key pair already exists in AWS, no action taken.", 0)
     ELSE IF response.id # 0 THEN Echo(response.c, "Key pair created.", response.id)
     ELSE response.c)))

(***************************************************************************)
(* Manual/Create/EC2/ec2_create_instance.py.  The operator answers every   *)
(* prompt and asks for one instance.                                       *)
(***************************************************************************)
launch_ec2_instances(c, F, lei_subnet_id, lei_tag_name_value, lei_user_data) ==
  Let(c.ec2, LAMBDA e :
  Let([id |-> e.next, subnet |-> lei_subnet_id,
              tags |-> Tags(lei_tag_name_value, <<"Dev">>)], LAMBDA new :
  Let(Mutate(c, F, "run_instances", 0,
                  F3("subnet-id", lei_subnet_id, "tag:Name", lei_tag_name_value,
                     "tag:Environment", <<"Dev">>), "",
                  \E s \in e.subnets : s.id = lei_subnet_id,
                  [Fresh(e) EXCEPT !.instances = @ \cup {new}], e.next), LAMBDA m :
      \* lei_waiter.wait(...) polls describe_instances
      Let(Describe(m.c, F, "describe_instances", ("instance-id" :> m.id)), LAMBDA w :
  Let(Describe(w.c, F, "describe_instances", ("instance-id" :> m.id)), LAMBDA d :
     IF ~lei_user_data
       THEN [c |-> Echo(c, "Exiting due to failure in reading user data.", 0), id |-> 0]
     ELSE IF m.err THEN [c |-> Echo(m.c, "Failed to launch EC2 instances", 0), id |-> 0]
     ELSE IF w.err THEN [c |-> Crash(w.c), id |-> 0]
     ELSE IF d.err THEN [c |-> Crash(d.c), id |-> 0]
     ELSE [c |-> d.c, id |-> m.id])))))

instance_main(c, F, subnet_id, tag_name_value, user_data) ==
  Let(launch_ec2_instances(c, F, subnet_id, tag_name_value, user_data), LAMBDA l :
     IF l.c.crashed THEN l.c
     ELSE IF l.id # 0 THEN Echo(l.c, "Instance launched successfully", l.id)
     ELSE Echo(l.c, "Instance launch failed.", 0))

(***************************************************************************)
(* The provider state a run can meet: nothing, a network of the configured *)
(* name built by hand whose tagged route table is the VPC's main one, and  *)
(* somebody else's network that carries the same Name tags in another      *)
(* environment.                                                            *)
(***************************************************************************)
OwnNetwork ==
  [vpcs   |-> {[id |-> 1, cidr |-> CIDR_BLOCK, tags |-> Tags(TAG_VPC_NAME, TAG_ENV)]},
   rtbs   |-> {[id |-> 2, vpc |-> 1, tags |-> Tags(TAG_RTB, TAG_ENV)]},
   assocs |-> {[id |-> 3, rtb |-> 2, subnet |-> 0, main |-> TRUE]}]

OtherNetwork ==
  [vpcs   |-> {[id |-> 4, cidr |-> CIDR_BLOCK, tags |-> Tags(TAG_VPC_NAME, OTHER_ENV)]},
   rtbs   |-> {[id |-> 5, vpc |-> 4, tags |-> Tags(TAG_RTB, OTHER_ENV)]},
   assocs |-> {[id |-> 6, rtb |-> 5, subnet |-> 0, main |-> TRUE]}]

\* ids below FirstFreshId belong to what was there before the first run
PriorIds == {r.id : r \in OwnNetwork.vpcs \cup OwnNetwork.rtbs \cup OwnNetwork.assocs
                          \cup OtherNetwork.vpcs \cup OtherNetwork.rtbs
                          \cup OtherNetwork.assocs}

FirstFreshId == 1 + Cardinality(PriorIds)

EmptyEc2 == [vpcs |-> {}, subnets |-> {}, rtbs |-> {}, assocs |-> {}, routes |-> {},
             igws |-> {}, sgs |-> {}, keys |-> {}, instances |-> {}, next |-> FirstFreshId]

With(e, n) == [e EXCEPT !.vpcs = @ \cup n.vpcs, !.rtbs = @ \cup n.rtbs,
                        !.assocs = @ \cup n.assocs]

InitialEc2 == {EmptyEc2, With(EmptyEc2, OwnNetwork), With(EmptyEc2, OtherNetwork),
               With(With(EmptyEc2, OwnNetwork), OtherNetwork)}

(***************************************************************************)
(* Fault injection.                                                        *)
(***************************************************************************)
Injected(l) == \E i \in DOMAIN l : l[i].inj

\* the positions of `log` at which the operation about to run meets a fault
FaultSets ==
  IF faulted THEN {{}}
  ELSE {{}} \cup {{p} : p \in (Len(log) + 1)..(Len(log) + MaxCallsPerOp)}

(***************************************************************************)
(* main(): one action per statement of the two branches.                   *)
(***************************************************************************)
NoTty == [script |-> "none", pc |-> "idle"]

NoListing == [script |-> "none", pages |-> <<>>, pc |-> "idle", next_token |-> 0,
              details |-> <<>>, failed |-> FALSE]

Ctx == [ec2 |-> ec2, log |-> log, out |-> out, crashed |-> FALSE, files |-> files,
        step |-> step + 1]

Returned(c) ==
  /\ ec2' = c.ec2
  /\ log' = c.log
  /\ out' = c.out
  /\ faulted' = (faulted \/ Injected(c.log))
  /\ crashed' = c.crashed
  /\ files' = c.files
  /\ step' = step + 1
  /\ UNCHANGED <<operation, runs, race, listing, tty>>

At(op, n) == operation = op /\ step = n /\ ~crashed

Finished == operation \notin {"create", "delete"} \/ crashed \/ step = 7

Init ==
  /\ ec2 \in InitialEc2
  /\ operation = "none"
  /\ step = 0
  /\ crashed = FALSE
  /\ log = <<>>
  /\ out = <<>>
  /\ runs = 0
  /\ tty = NoTty
  /\ faulted = FALSE
  /\ files = {}
  /\ race = <<>>
  /\ listing = NoListing

\* operation = input(...).strip().lower(); a new process: nothing of the last run
\* is kept but the provider's state
main(answer) ==
  /\ Finished
  /\ answer \in {"create", "delete"} => runs < MaxRuns
  /\ operation' = answer
  /\ step' = 0
  /\ crashed' = FALSE
  /\ log' = <<>>
  /\ out' = IF answer \in {"create", "delete"} THEN <<>>
            ELSE <<[msg |-> "Invalid operation.", id |-> 0]>>
  /\ runs' = IF answer \in {"create", "delete"} THEN runs + 1 ELSE runs
  /\ UNCHANGED <<ec2, faulted, files, race, listing, tty>>

Create1 == At("create", 0) /\ \E F \in FaultSets : Returned(create_vpc_operation(Ctx, F))
Create2 == At("create", 1) /\ \E F \in FaultSets, rev \in BOOLEAN :
              Returned(create_subnet_operation(Ctx, F, rev))
Create3 == At("create", 2) /\ \E F \in FaultSets, rev \in BOOLEAN :
              Returned(create_route_table_operation(Ctx, F, rev))
Create4 == At("create", 3) /\ \E F \in FaultSets, rev \in BOOLEAN :
              Returned(associate_subnets_operation(Ctx, F, rev))
Create5 == At("create", 4) /\ \E F \in FaultSets :
              Returned(create_internet_gateway_operation(Ctx, F))
Create6 == At("create", 5) /\ \E F \in FaultSets, rev \in BOOLEAN :
              Returned(attach_internet_gateway_operation(Ctx, F, rev))
Create7 == At("create", 6) /\ \E F \in FaultSets, rev \in BOOLEAN :
              Returned(create_route_operation(Ctx, F, rev))

Delete1 == At("delete", 0) /\ \E F \in FaultSets, rev \in BOOLEAN :
              Returned(delete_route_operation(Ctx, F, rev))
Delete2 == At("delete", 1) /\ \E F \in FaultSets, rev \in BOOLEAN :
              Returned(detach_internet_gateway_operation(Ctx, F, rev))
Delete3 == At("delete", 2) /\ \E F \in FaultSets, rev \in BOOLEAN :
              Returned(delete_internet_gateway_operation(Ctx, F, rev))
Delete4 == At("delete", 3) /\ \E F \in FaultSets, rev \in BOOLEAN :
              Returned(disassociate_subnets_operation(Ctx, F, rev))
Delete5 == At("delete", 4) /\ \E F \in FaultSets, rev \in BOOLEAN :
              Returned(delete_route_table_operation(Ctx, F, rev))
Delete6 == At("delete", 5) /\ \E F \in FaultSets, rev \in BOOLEAN :
              Returned(delete_subnets_operation(Ctx, F, rev))
Delete7 == At("delete", 6) /\ \E F \in FaultSets, rev \in BOOLEAN :
              Returned(delete_vpc_operation(Ctx, F, rev))

\* what the operator types at the prompts of the Manual scripts
GROUP_NAME == <<"web">>
GROUP_TAG == <<"web", "sg">>
KEY_NAME == <<"dev", "key">>
INSTANCE_NAME == <<"web", "1">>

IdsTyped(S) == IF S = {} THEN {0} ELSE {r.id : r \in S}

\* a Manual script is one process from its first prompt to its exit
NewRun == [ec2 |-> ec2, log |-> <<>>, out |-> <<>>, crashed |-> FALSE, files |-> files,
           step |-> 1]

NewRunFaultSets == IF faulted THEN {{}} ELSE {{}} \cup {{p} : p \in 1..MaxCallsPerOp}

Ran(script, c) ==
  /\ Finished
  /\ runs < MaxRuns
  /\ operation' = script
  /\ step' = 1
  /\ runs' = runs + 1
  /\ ec2' = c.ec2
  /\ log' = c.log
  /\ out' = c.out
  /\ crashed' = c.crashed
  /\ files' = c.files
  /\ faulted' = (faulted \/ Injected(c.log))
  /\ UNCHANGED <<race, listing, tty>>

CreateSecurityGroup ==
  \E F \in NewRunFaultSets, vpc_id \in IdsTyped(ec2.vpcs) :
     Ran("ec2_create_security_group",
         security_group_main(NewRun, F, GROUP_NAME, vpc_id, GROUP_TAG))

CreateKeyPair ==
  \E F \in NewRunFaultSets : Ran("ec2_create_key_pair", key_pair_main(NewRun, F, KEY_NAME))

CreateInstance ==
  \E F \in NewRunFaultSets, subnet_id \in IdsTyped(ec2.subnets), user_data \in BOOLEAN :
     Ran("ec2_create_instance", instance_main(NewRun, F, subnet_id, INSTANCE_NAME, user_data))

Next ==
  \/ \E answer \in {"create", "delete", "status"} : main(answer)
  \/ CreateSecurityGroup \/ CreateKeyPair \/ CreateInstance
  \/ Create1 \/ Create2 \/ Create3 \/ Create4 \/ Create5 \/ Create6 \/ Create7
  \/ Delete1 \/ Delete2 \/ Delete3 \/ Delete4 \/ Delete5 \/ Delete6 \/ Delete7

Spec == Init /\ [][Next]_vars

(***************************************************************************)
(* SpecRace: create_vpc_operation run by several invocations at once.  The *)
(* provider serves one request at a time; an invocation is between its two *)
(* requests when its pc is "create".                                       *)
(***************************************************************************)
Procs == 1..Invocations

RaceCtx == [ec2 |-> ec2, log |-> log, out |-> <<>>, crashed |-> FALSE, files |-> files,
            step |-> 1]

RaceFaultSets == IF faulted THEN {{}} ELSE {{}, {Len(log) + 1}}

InitRace ==
  /\ ec2 \in InitialEc2
  /\ operation = "none"
  /\ step = 0
  /\ crashed = FALSE
  /\ log = <<>>
  /\ out = <<>>
  /\ runs = 0
  /\ tty = NoTty
  /\ faulted = FALSE
  /\ files = {}
  /\ listing = NoListing
  /\ race = [p \in Procs |-> [pc |-> "check", exists |-> FALSE, check |-> 0, create |-> 0,
                              out |-> <<>>]]

\* vpc_exists_result, vpc_exists_error = vpc_exists(...) and the Found branch
RaceCheck(p) ==
  /\ race[p].pc = "check"
  /\ \E F \in RaceFaultSets :
        Let(vpc_exists(RaceCtx, F, CIDR_BLOCK, TAG_VPC_NAME, TAG_ENV), LAMBDA x :
           /\ ec2' = x.c.ec2
           /\ log' = x.c.log
           /\ faulted' = (faulted \/ Injected(x.c.log))
           /\ race' = [race EXCEPT ![p] =
                         [pc |-> IF x.exists THEN "done" ELSE "create",
                          exists |-> x.exists,
                          check |-> Len(x.c.log),
                          create |-> 0,
                          out |-> IF x.exists THEN Echo(x.c, "VPC Exits", 0).out ELSE <<>>]])
  /\ UNCHANGED <<operation, step, crashed, out, runs, files, listing, tty>>

\* the else branch: vpc_id, create_vpc_error = create_vpc(...)
RaceCreate(p) ==
  /\ race[p].pc = "create"
  /\ \E F \in RaceFaultSets :
        Let(create_vpc(RaceCtx, F, CIDR_BLOCK, TAG_VPC_NAME, TAG_ENV), LAMBDA n :
           /\ ec2' = n.c.ec2
           /\ log' = n.c.log
           /\ faulted' = (faulted \/ Injected(n.c.log))
           /\ race' = [race EXCEPT ![p] =
                         [@ EXCEPT !.pc = "done",
                                   !.create = Len(n.c.log),
                                   !.out = IF n.error # ""
                                             THEN Echo(n.c, "Error: Error creating VPC", 0).out
                                             ELSE Echo(n.c, "VPC Details", n.id).out]])
  /\ UNCHANGED <<operation, step, crashed, out, runs, files, listing, tty>>

NextRace == \E p \in Procs : RaceCheck(p) \/ RaceCreate(p)

SpecRace == InitRace /\ [][NextRace]_vars

(***************************************************************************)
(* SpecList: Manual/List/EC2.  A result set is a list of resources that    *)
(* the provider splits into consecutive pages, each page but the last      *)
(* carrying the NextToken of the page after it.                            *)
(***************************************************************************)
AllTraffic == [proto |-> "-1", from |-> "N/A", to |-> "N/A"]
Tcp(port) == [proto |-> "tcp", from |-> port, to |-> port]

\* the IpPermissions and IpPermissionsEgress a security group can have
GroupShapes ==
  {[ingress |-> {}, egress |-> {AllTraffic}],
   [ingress |-> {Tcp("22")}, egress |-> {AllTraffic}],
   [ingress |-> {}, egress |-> {Tcp("443")}],
   [ingress |-> {AllTraffic}, egress |-> {}]}

Scripts == {"ec2_list_all", "ec2_list_security_groups", "ec2_list_key_pairs",
            "ec2_list_instance_types"}

\* the result sets of n resources; only security groups differ in shape
ResultSets(script, n) ==
  IF script = "ec2_list_security_groups"
    THEN {[i \in 1..n |-> [id |-> i, ingress |-> shape[i].ingress,
                           egress |-> shape[i].egress]] :
            shape \in [1..n -> GroupShapes]}
    ELSE {[i \in 1..n |-> [id |-> i, ingress |-> {}, egress |-> {}]]}

\* the ways to split a result set into at most k pages; a page can be empty
RECURSIVE Cuts(_, _)
Cuts(s, k) ==
  IF k <= 1 THEN {<<s>>}
  ELSE {<<s>>} \cup UNION {{<<SubSeq(s, 1, i)>> \o rest :
                              rest \in Cuts(SubSeq(s, i + 1, Len(s)), k - 1)} :
                           i \in 0..Len(s)}

RECURSIVE Flatten(_)
Flatten(pages) == IF pages = <<>> THEN <<>> ELSE Head(pages) \o Flatten(Tail(pages))

Ids(items) == [i \in 1..Len(items) |-> items[i].id]

\* the response to describe_*(NextToken=...): its resources and its NextToken,
\* 0 when the response has none
PageAt(l) == IF l.next_token = 0 THEN 1 ELSE l.next_token
Page(l) == l.pages[PageAt(l)]
NextToken(l) == IF PageAt(l) < Len(l.pages) THEN PageAt(l) + 1 ELSE 0

Looped(l, entries) ==
  [l EXCEPT !.details = @ \o entries,
            !.next_token = NextToken(l),
            !.pc = IF NextToken(l) = 0 THEN "returned" ELSE "loop"]

\* variant: the list of details is set anew for every page
list_ec2_instances_page_only(l, fails) ==
  IF fails THEN [l EXCEPT !.details = <<>>, !.pc = "returned", !.failed = TRUE]
  ELSE [Looped(l, <<>>) EXCEPT !.details = Ids(Page(l))]

\* one turn of the loop of list_ec2_instances(client, None, None)
list_ec2_instances(l, fails) ==
  IF fails THEN [l EXCEPT !.details = <<>>, !.pc = "returned", !.failed = TRUE]
  ELSE Looped(l, Ids(Page(l)))

has_ingress(sg) ==
  \E permission \in sg.ingress :
     permission.proto # "N/A" /\ permission.from # "N/A" /\ permission.to # "N/A"

has_egress(sg) ==
  \E permission \in sg.egress :
     permission.proto # "-1" /\ permission.from # "N/A" /\ permission.to # "N/A"

\* variant: an error leaves the loop with the details gathered so far
list_security_groups_keeping(l, fails) ==
  IF fails THEN [l EXCEPT !.pc = "returned", !.failed = TRUE]
  ELSE Looped(l, Ids(SelectSeq(Page(l), LAMBDA sg : has_ingress(sg) \/ has_egress(sg))))

\* one turn of the loop of list_security_groups(client)
list_security_groups(l, fails) ==
  IF fails THEN [l EXCEPT !.details = <<>>, !.pc = "returned", !.failed = TRUE]
  ELSE Looped(l, Ids(SelectSeq(Page(l), LAMBDA sg : has_ingress(sg) \/ has_egress(sg))))

\* one turn of the loop of list_key_pairs(client, '*'): the pattern matches every
\* name, and an error leaves the loop with the details gathered so far
list_key_pairs(l, fails) ==
  IF fails THEN [l EXCEPT !.pc = "returned", !.failed = TRUE]
  ELSE Looped(l, Ids(Page(l)))

\* variant: a failed fetch does not leave the loop
list_instance_types_retrying(l, fails) ==
  IF fails THEN [l EXCEPT !.failed = TRUE]
  ELSE Looped(l, Ids(Page(l)))

\* one turn of the loop of list_instance_types(client); an error leaves the loop
\* with the details gathered so far
list_instance_types(l, fails) ==
  IF fails THEN [l EXCEPT !.pc = "returned", !.failed = TRUE]
  ELSE Looped(l, Ids(Page(l)))

InitList ==
  /\ ec2 = EmptyEc2
  /\ operation = "none"
  /\ step = 0
  /\ crashed = FALSE
  /\ log = <<>>
  /\ out = <<>>
  /\ runs = 0
  /\ tty = NoTty
  /\ faulted = FALSE
  /\ files = {}
  /\ race = <<>>
  /\ \E script \in Scripts, n \in 0..MaxItems :
        \E items \in ResultSets(script, n) :
           \E pages \in Cuts(items, MaxPages) :
              listing = [script |-> script, pages |-> pages, pc |-> "loop",
                         next_token |-> 0, details |-> <<>>, failed |-> FALSE]

Turn(script, l) ==
  /\ listing.script = script
  /\ listing.pc = "loop"
  /\ listing' = l
  /\ UNCHANGED <<ec2, operation, step, crashed, log, out, runs, faulted, files, race, tty>>

ListInstances == \E fails \in BOOLEAN : Turn("ec2_list_all", list_ec2_instances(listing, fails))

ListSecurityGroups ==
  \E fails \in BOOLEAN :
     Turn("ec2_list_security_groups", list_security_groups(listing, fails))

ListKeyPairs ==
  \E fails \in BOOLEAN : Turn("ec2_list_key_pairs", list_key_pairs(listing, fails))

ListInstanceTypes ==
  \E fails \in BOOLEAN :
     Turn("ec2_list_instance_types", list_instance_types(listing, fails))

NextList == ListInstances \/ ListSecurityGroups \/ ListKeyPairs \/ ListInstanceTypes

SpecList == InitList /\ [][NextList]_vars

\* the interpreter keeps running the loop it is in
SpecListLive == SpecList /\ WF_vars(NextList)

(***************************************************************************)
(* SpecExists: one call of an existence check.  The provider holds up to   *)
(* MaxHeld resources of the kind asked for; each agrees with the arguments *)
(* of the check on some of the attributes and differs on the others, or    *)
(* carries no Environment tag at all.                                      *)
(***************************************************************************)
\* values that no argument of a check takes
Unrelated == [cidr |-> "172.16.0.0/16", name |-> <<"Test">>, zone |-> "us-west-2a", vpc |-> 102]
\* the VPC id handed to the checks that take one
OWN_VPC == 101

TagSets(name) == {Tags(n, e) : n \in {name, Unrelated.name}, e \in {TAG_ENV, OTHER_ENV}}
                 \cup {{<<"Name", n>>} : n \in {name, Unrelated.name}}

Held(kind) ==
  CASE kind = "vpcs" ->
         {[cidr |-> c, tags |-> t] : c \in {CIDR_BLOCK, Unrelated.cidr}, t \in TagSets(TAG_VPC_NAME)}
    [] kind = "subnets" ->
         {[cidr |-> c, tags |-> t, vpc |-> v, az |-> z] :
            c \in {CIDR_PUBLIC_SUBNETS[1], Unrelated.cidr}, t \in TagSets(TAG_SUBNETS[1]),
            v \in {OWN_VPC, Unrelated.vpc}, z \in {AVAILABILITY_ZONES[1], Unrelated.zone}}
    [] kind = "rtbs" ->
         {[vpc |-> v, tags |-> t] : v \in {OWN_VPC, Unrelated.vpc}, t \in TagSets(TAG_RTB)}
    [] kind = "igws" ->
         {[vpc |-> v, tags |-> t] : v \in {0, OWN_VPC}, t \in TagSets(TAG_IGW_NAME)}
    [] kind = "sgs" ->
         {[name |-> n, vpc |-> v, tags |-> t] :
            n \in {GROUP_NAME, Unrelated.name}, v \in {OWN_VPC, Unrelated.vpc},
            t \in {{}, {<<"Name", GROUP_TAG>>}}}
    [] kind = "keys" ->
         {[name |-> n, tags |-> {<<"Name", n>>}] : n \in {KEY_NAME, Unrelated.name}}

Kinds == {"vpcs", "subnets", "rtbs", "igws", "sgs", "keys"}

\* the subsets of S of at most k elements
RECURSIVE UpTo(_, _)
UpTo(S, k) == IF k = 0 THEN {{}} ELSE {{}} \cup {T \cup {x} : T \in UpTo(S, k - 1), x \in S}

\* the provider assigns each resource an id of its own
RECURSIVE Identified(_)
Identified(S) ==
  IF S = {} THEN {}
  ELSE LET r == CHOOSE x \in S : TRUE
       IN {[k \in DOMAIN r \cup {"id"} |-> IF k = "id" THEN Cardinality(S) ELSE r[k]]}
          \cup Identified(S \ {r})

InitExists ==
  /\ \E kind \in Kinds : \E S \in UpTo(Held(kind), MaxHeld) :
        ec2 = [k \in DOMAIN EmptyEc2 |-> IF k = kind THEN Identified(S) ELSE EmptyEc2[k]]
  /\ operation = "none"
  /\ step = 0
  /\ crashed = FALSE
  /\ log = <<>>
  /\ out = <<>>
  /\ runs = 0
  /\ tty = NoTty
  /\ faulted = FALSE
  /\ files = {}
  /\ race = <<>>
  /\ listing = NoListing

\* the check is called where the provider holds nothing of another kind
Calling(kind) ==
  /\ operation = "none"
  /\ \A k \in Kinds \ {kind} : ec2[k] = {}

\* the caller reads the boolean the check returns
Answered(check, x) ==
  /\ operation' = check
  /\ log' = x.c.log
  /\ out' = Append(x.c.out, [msg |-> IF x.exists THEN "exists" ELSE "does not exist",
                            id |-> 0])
  /\ faulted' = Injected(x.c.log)
  /\ UNCHANGED <<ec2, step, crashed, runs, files, race, listing, tty>>

CheckVpc ==
  Calling("vpcs") /\ \E F \in NewRunFaultSets :
     Answered("vpc_exists", vpc_exists(NewRun, F, CIDR_BLOCK, TAG_VPC_NAME, TAG_ENV))

CheckSubnet ==
  Calling("subnets") /\ \E F \in NewRunFaultSets :
     Answered("subnet_exists",
              subnet_exists(NewRun, F, CIDR_PUBLIC_SUBNETS[1], TAG_SUBNETS[1], TAG_ENV,
                            OWN_VPC, AVAILABILITY_ZONES[1]))

CheckRouteTable ==
  Calling("rtbs") /\ \E F \in NewRunFaultSets :
     Answered("route_table_exists", route_table_exists(NewRun, F, TAG_RTB, TAG_ENV, OWN_VPC))

CheckInternetGateway ==
  Calling("igws") /\ \E F \in NewRunFaultSets :
     Answered("internet_gateway_exists",
              internet_gateway_exists(NewRun, F, TAG_IGW_NAME, TAG_ENV))

CheckSecurityGroup ==
  Calling("sgs") /\ \E F \in NewRunFaultSets :
     Answered("security_group_exists", security_group_exists(NewRun, F, GROUP_NAME, OWN_VPC))

CheckKeyPair ==
  Calling("keys") /\ \E F \in NewRunFaultSets :
     Answered("key_pair_exists", key_pair_exists(NewRun, F, KEY_NAME))

NextExists ==
  \/ CheckVpc \/ CheckSubnet \/ CheckRouteTable
  \/ CheckInternetGateway \/ CheckSecurityGroup \/ CheckKeyPair

SpecExists == InitExists /\ [][NextExists]_vars

(***************************************************************************)
(* SpecTeardown: one run of the 'delete' branch of main.py in an account   *)
(* that holds the configured network, complete, and beside it the network  *)
(* of another environment that uses the same Name tags.                    *)
(***************************************************************************)
\* a network as the 'create' branch leaves it: the VPC, its tagged route table
\* with the default route, one subnet associated with the table, the gateway
NetworkOf(n, env, subnet, assoc, igw) ==
  Let((CHOOSE v \in n.vpcs : TRUE).id, LAMBDA vpc :
  Let((CHOOSE t \in n.rtbs : TRUE).id, LAMBDA rtb :
     [vpcs |-> n.vpcs, rtbs |-> n.rtbs,
      subnets |-> {[id |-> subnet, vpc |-> vpc, cidr |-> CIDR_PUBLIC_SUBNETS[1],
                    az |-> AVAILABILITY_ZONES[1], tags |-> Tags(TAG_SUBNETS[1], env)]},
      assocs |-> n.assocs \cup {[id |-> assoc, rtb |-> rtb, subnet |-> subnet, main |-> FALSE]},
      igws |-> {[id |-> igw, tags |-> Tags(TAG_IGW_NAME, env), vpc |-> vpc]},
      routes |-> {[rtb |-> rtb, dest |-> DEST_CIDR_BLOCK, gw |-> igw]}]))

OwnBuilt == NetworkOf(OwnNetwork, TAG_ENV, 7, 8, 9)
OtherBuilt == NetworkOf(OtherNetwork, OTHER_ENV, 10, 11, 12)

BothBuilt ==
  [k \in DOMAIN EmptyEc2 |->
     IF k = "next" THEN 13
     ELSE IF k \in DOMAIN OwnBuilt THEN OwnBuilt[k] \cup OtherBuilt[k]
     ELSE EmptyEc2[k]]

InitTeardown ==
  /\ ec2 = BothBuilt
  /\ operation = "delete"
  /\ step = 0
  /\ crashed = FALSE
  /\ log = <<>>
  /\ out = <<>>
  /\ runs = 1
  /\ tty = NoTty
  /\ faulted = FALSE
  /\ files = {}
  /\ race = <<>>
  /\ listing = NoListing

NextTeardown == Delete1 \/ Delete2 \/ Delete3 \/ Delete4 \/ Delete5 \/ Delete6 \/ Delete7

SpecTeardown == InitTeardown /\ [][NextTeardown]_vars

(***************************************************************************)
(* SpecSubnet: create_subnet of helper.py called directly, with arguments  *)
(* of the caller's choice, in an account that holds the VPC of the         *)
(* configuration.                                                          *)
(***************************************************************************)
InitSubnet ==
  /\ ec2 \in {With(EmptyEc2, OwnNetwork), With(With(EmptyEc2, OwnNetwork), OtherNetwork)}
  /\ operation = "none"
  /\ step = 0
  /\ crashed = FALSE
  /\ log = <<>>
  /\ out = <<>>
  /\ runs = 0
  /\ tty = NoTty
  /\ faulted = FALSE
  /\ files = {}
  /\ race = <<>>
  /\ listing = NoListing

\* subnet_id, error = create_subnet(ec2, ...): the caller prints what it gets
CallCreateSubnet ==
  /\ runs < MaxCalls
  /\ \E F \in NewRunFaultSets, rev \in BOOLEAN, i \in 1..NumSubnets, j_tag_env \in {TAG_ENV, OTHER_ENV} :
        Let(create_subnet(NewRun, F, rev, CIDR_PUBLIC_SUBNETS[i], AVAILABILITY_ZONES[i],
                          TAG_SUBNETS[i], j_tag_env), LAMBDA r :
           /\ operation' = "create_subnet"
           /\ runs' = runs + 1
           /\ ec2' = r.c.ec2
           /\ log' = r.c.log
           /\ out' = Append(r.c.out, [msg |-> IF r.error # "" THEN r.error ELSE "Created Subnet ID",
                                       id |-> r.id])
           /\ faulted' = (faulted \/ Injected(r.c.log))
           /\ UNCHANGED <<step, crashed, files, race, listing, tty>>)

NextSubnet == CallCreateSubnet

SpecSubnet == InitSubnet /\ [][NextSubnet]_vars

(***************************************************************************)
(* SpecSearch: the name filters of Manual/List.  A text is the sequence of *)
(* its characters; the operator's pattern is matched against the resources *)
(* of one response.                                                        *)
(***************************************************************************)
Letters == {"a", "A", "b"}

\* the texts of 1..n characters of S
RECURSIVE TextsOver(_, _)
TextsOver(S, n) ==
  IF n = 0 THEN {}
  ELSE {<<ch>> : ch \in S} \cup {Append(t, ch) : t \in TextsOver(S, n - 1), ch \in S}

ResourceNames == TextsOver(Letters, MaxName)
Patterns == TextsOver(Letters \cup {"*"}, MaxPattern)

\* str.lower() on the characters that occur
lower(text) ==
  [i \in DOMAIN text |->
     CASE text[i] = "A" -> "a" [] text[i] = "B" -> "b" [] text[i] = "C" -> "c"
       [] text[i] = "D" -> "d" [] text[i] = "E" -> "e" [] text[i] = "F" -> "f"
       [] text[i] = "G" -> "g" [] text[i] = "I" -> "i" [] text[i] = "N" -> "n"
       [] text[i] = "O" -> "o" [] text[i] = "P" -> "p" [] text[i] = "R" -> "r" [] text[i] = "T" -> "t"
       [] text[i] = "V" -> "v" [] OTHER -> text[i]]

\* fnmatch.fnmatchcase(name, pat) for patterns of literal characters and '*'
RECURSIVE fnmatchcase(_, _)
fnmatchcase(name, pat) ==
  IF pat = <<>> THEN name = <<>>
  ELSE IF Head(pat) = "*"
    THEN fnmatchcase(name, Tail(pat)) \/ (name # <<>> /\ fnmatchcase(Tail(name), pat))
  ELSE name # <<>> /\ Head(name) = Head(pat) /\ fnmatchcase(Tail(name), Tail(pat))

\* ssg_search_term in ssg_group
HasSubstring(text, term) ==
  \E i \in 0..(Len(text) - Len(term)) : SubSeq(text, i + 1, i + Len(term)) = term

\* str.replace('*', '')
RECURSIVE Unstarred(_)
Unstarred(text) ==
  IF text = <<>> THEN <<>>
  ELSE IF Head(text) = "*" THEN Unstarred(Tail(text))
  ELSE <<Head(text)>> \o Unstarred(Tail(text))

\* next((tag['Value'] for tag in ... if tag['Key'] == 'Name'), default)
NameTag(r, default) ==
  IF \E t \in r.tags : t[1] = "Name" THEN (CHOOSE t \in r.tags : t[1] = "Name")[2] ELSE default

NA ==
  <<"N", "/", "A">>

GroupNameLabel ==
  <<"G", "r", "o", "u", "p", "N", "a", "m", "e", ":", " ">>

GroupIdLabel ==
  <<"\n", "G", "r", "o", "u", "p", "I", "d", ":", " ", "s", "g", "-">>

VpcIdLabel ==
  <<"\n", "V", "p", "c", "I", "d", ":", " ", "v", "p", "c", "-">>

IngressText ==
  <<"I", "p", "P", "e", "r", "m", "i", "s", "s", "i", "o", "n", "s", " ", "(", "I",
    "n", "g", "r", "e", "s", "s", ")", ":", "\n", " ", " ", " ", " ", "I", "p", "P",
    "r", "o", "t", "o", "c", "o", "l", ":", " ", "t", "c", "p", "\n", " ", " ", " ",
    " ", "F", "r", "o", "m", "P", "o", "r", "t", ":", " ", "2", "2", "\n", " ", " ",
    " ", " ", "T", "o", "P", "o", "r", "t", ":", " ", "2", "2", "\n", " ", " ", " ",
    " ", "C", "I", "D", "R", " ", "B", "l", "o", "c", "k", ":", " ", "0", ".", "0",
    ".", "0", ".", "0", "/", "0", "\n">>

EgressText ==
  <<"I", "p", "P", "e", "r", "m", "i", "s", "s", "i", "o", "n", "s", "E", "g", "r",
    "e", "s", "s", " ", "(", "E", "g", "r", "e", "s", "s", ")", ":", "\n", " ", " ",
    " ", " ", "I", "p", "P", "r", "o", "t", "o", "c", "o", "l", ":", " ", "t", "c",
    "p", "\n", " ", " ", " ", " ", "F", "r", "o", "m", "P", "o", "r", "t", ":", " ",
    "4", "4", "3", "\n", " ", " ", " ", " ", "T", "o", "P", "o", "r", "t", ":", " ",
    "4", "4", "3", "\n", " ", " ", " ", " ", "C", "I", "D", "R", " ", "B", "l", "o",
    "c", "k", ":", " ", "0", ".", "0", ".", "0", ".", "0", "/", "0", "\n">>

\* the ids the provider prints after "sg-" and "vpc-"
Hex(n) == <<"0", <<"1", "2", "3", "4", "5", "6", "7", "8", "9">>[n]>>

\* list_security_groups: the text of one group, for a group that has a rule to show
security_group_info(sg) ==
  GroupNameLabel \o sg.name \o GroupIdLabel \o Hex(sg.id) \o VpcIdLabel \o Hex(sg.vpc)
  \o <<"\n">> \o (IF has_ingress(sg) THEN IngressText ELSE <<>>)
  \o (IF has_egress(sg) THEN EgressText ELSE <<>>)

search_security_groups(ssg_security_groups, ssg_search_term) ==
  Let(Unstarred(lower(ssg_search_term)), LAMBDA term :
     {sg \in ssg_security_groups : HasSubstring(lower(security_group_info(sg)), term)})

filter_subnets_by_name(fsbn_subnets, fsbn_name_filter) ==
  {fsbn_subnet \in fsbn_subnets :
     Let(NameTag(fsbn_subnet, <<>>), LAMBDA fsbn_subnet_name :
        /\ fsbn_subnet_name # <<>>
        /\ fnmatchcase(lower(fsbn_subnet_name), lower(fsbn_name_filter)))}

\* the test of list_key_pairs on the key pairs of a response
key_pairs_matching(key_pairs, lkp_search_term) ==
  {lkp_kp \in key_pairs : fnmatchcase(lower(lkp_kp.name), lower(lkp_search_term))}

\* the test of list_ec2_instances on the instances of a response
instances_matching(instances, lei_name_filter, lei_state_filter) ==
  {lei_instance \in instances :
     ~ \/ (lei_name_filter # <<>>
            /\ ~fnmatchcase(lower(NameTag(lei_instance, NA)), lower(lei_name_filter)))
       \/ (lei_state_filter # "" /\ lei_instance.state # lei_state_filter)}

SearchKinds == {"keys", "subnets", "instances", "sgs"}

NameTags == {{<<"Name", n>>} : n \in ResourceNames} \cup {{}}

Searchable(kind) ==
  CASE kind = "keys" -> {[name |-> n] : n \in ResourceNames}
    [] kind = "subnets" -> {[tags |-> t] : t \in NameTags}
    [] kind = "instances" -> {[tags |-> t, state |-> s] : t \in NameTags, s \in {"running", "stopped"}}
    [] kind = "sgs" -> {[name |-> n, vpc |-> 1, ingress |-> shape.ingress, egress |-> shape.egress] :
                          n \in ResourceNames,
                          shape \in {[ingress |-> {}, egress |-> {AllTraffic}],
                                     [ingress |-> {Tcp("22")}, egress |-> {AllTraffic}]}}

InitSearch ==
  /\ \E kind \in SearchKinds : \E S \in UpTo(Searchable(kind), MaxHeld) :
        ec2 = [k \in DOMAIN EmptyEc2 |-> IF k = kind THEN Identified(S) ELSE EmptyEc2[k]]
  /\ operation = "none"
  /\ step = 0
  /\ crashed = FALSE
  /\ log = <<>>
  /\ out = <<>>
  /\ runs = 0
  /\ tty = NoTty
  /\ faulted = FALSE
  /\ files = {}
  /\ race = <<>>
  /\ listing = NoListing

\* the script prints the resources it selected, in the order of the response
Searched(script, kind, pattern, state_filter, selected) ==
  /\ operation = "none"
  /\ \A k \in SearchKinds \ {kind} : ec2[k] = {}
  /\ operation' = script
  /\ tty' = [script |-> script, pc |-> "searched", pattern |-> pattern,
             state_filter |-> state_filter]
  /\ out' = [i \in 1..Cardinality(selected) |->
               [msg |-> kind, id |-> SortById(selected)[i].id]]
  /\ UNCHANGED <<ec2, step, crashed, log, runs, faulted, files, race, listing>>

SearchKeyPairs ==
  \E search_term \in Patterns :
     Searched("ec2_list_key_pairs", "keys", search_term, "",
              key_pairs_matching(ec2.keys, search_term))

SearchSubnets ==
  \E name_filter \in Patterns :
     Searched("vpc_list_subnets", "subnets", name_filter, "",
              filter_subnets_by_name(ec2.subnets, name_filter))

SearchInstances ==
  \E name_filter \in Patterns, state_filter \in {"running", "stopped"} :
     Searched("ec2_list_all", "instances", name_filter, state_filter,
              instances_matching(ec2.instances, name_filter, state_filter))

SearchSecurityGroups ==
  \E search_input \in Patterns :
     Searched("ec2_list_security_groups", "sgs", search_input, "",
              search_security_groups({sg \in ec2.sgs : has_ingress(sg) \/ has_egress(sg)},
                                     search_input))

NextSearch == SearchKeyPairs \/ SearchSubnets \/ SearchInstances \/ SearchSecurityGroups

SpecSearch == InitSearch /\ [][NextSearch]_vars

(***************************************************************************)
(* SpecPrompt: the interactive sessions.  One action per call of input():  *)
(* the operator types an answer and the script runs on to its next call of *)
(* input() or to its end.  The sessions are the rule loops of              *)
(* ec2_create_security_group.py, entered once the group has been created,  *)
(* and the prompts of ec2_list_all.py.                                     *)
(***************************************************************************)
\* what the operator can type: nothing, a word, a number, a dotted address
\* with a prefix length, "sg-" followed by `hex` lower-case hexadecimal digits
Empty == [kind |-> "empty"]
Text(t) == [kind |-> "text", t |-> t]
Number(n) == [kind |-> "int", n |-> n]
Cidr(octets, prefix) == [kind |-> "cidr", octets |-> octets, prefix |-> prefix]
Sg(hex) == [kind |-> "sg", hex |-> hex]

\* input() has not returned anything usable yet: prompt_with_retries asks again
Pending == [kind |-> "pending"]

\* the number of decimal digits of a number typed without leading zeros
Digits(n) == IF n < 10 THEN 1 ELSE IF n < 100 THEN 2 ELSE IF n < 1000 THEN 3 ELSE 4

\* re.match(r'^(?:[0-9]{1,3}\.){3}[0-9]{1,3}/[0-9]{1,2}$', ivc_cidr)
is_valid_cidr(ivc_cidr) ==
  /\ ivc_cidr.kind = "cidr"
  /\ Len(ivc_cidr.octets) = 4
  /\ \A i \in 1..4 : Digits(ivc_cidr.octets[i]) <= 3
  /\ Digits(ivc_cidr.prefix) <= 2

\* re.match(r'^sg-[0-9a-f]{8,17}$', ivsgi_sg_id)
is_valid_security_group_id(ivsgi_sg_id) ==
  ivsgi_sg_id.kind = "sg" /\ ivsgi_sg_id.hex \in 8..17

\* one call of input() inside prompt_with_retries: the response when there is
\* one, `exhausted` (the text "no", or None in ec2_list_all.py) after the last
\* empty answer, and Pending when the prompt is repeated
prompt_with_retries(pwr_retries, pwr_response, exhausted) ==
  IF pwr_response.kind # "empty"
    THEN [ret |-> pwr_response, retries |-> 0, exhausted |-> FALSE, said |-> <<>>]
  ELSE IF pwr_retries + 1 < pwr_max_retries
    THEN [ret |-> Pending, retries |-> pwr_retries + 1, exhausted |-> FALSE,
          said |-> <<[msg |-> "No input provided", id |-> pwr_max_retries - pwr_retries - 1]>>]
  ELSE [ret |-> exhausted, retries |-> 0, exhausted |-> TRUE,
        said |-> <<[msg |-> "No input provided", id |-> 0]>>]

YesNoAnswers == {Empty, Text("yes"), Text("no"), Text("maybe")}
ProtocolAnswers == {Empty, Text("tcp"), Text("udp"), Text("icmp"), Text("no")}
PortAnswers == {Empty, Number(80), Number(65536), Number(0 - 1), Text("http")}
SourceAnswers == {Empty, Text("no"), Cidr(<<10, 0, 0, 0>>, 16), Cidr(<<300, 1, 1, 1>>, 40),
                  Cidr(<<10, 0, 0, 1000>>, 16), Sg(8), Sg(7)}
StateAnswers == {Empty, Text("running"), Number(0), Number(2), Number(8)}
NameAnswers == {Empty, Text("web*")}

INSTANCE_STATES == <<"pending", "running", "shutting-down", "terminated", "stopping",
                     "stopped", "failed">>

\* the group whose rules the session of ec2_create_security_group.py adds
RuleGroup == [id |-> 1, name |-> GROUP_NAME, vpc |-> OWN_VPC, tags |-> {<<"Name", GROUP_TAG>>},
              ingress |-> {}, egress |-> {}]

Session(script, pc) ==
  [script |-> script, pc |-> pc, direction |-> "ingress", retries |-> 0, asked |-> 0,
   typed |-> 0, exhausted |-> "", protocol |-> "", port |-> 0, attempts |-> 0,
   name_filter |-> Empty, state_filter |-> ""]

InitPrompt ==
  /\ ec2 = [EmptyEc2 EXCEPT !.sgs = {RuleGroup}]
  /\ operation = "none"
  /\ step = 0
  /\ crashed = FALSE
  /\ log = <<>>
  /\ out = <<>>
  /\ runs = 0
  /\ faulted = FALSE
  /\ files = {}
  /\ race = <<>>
  /\ listing = NoListing
  /\ tty \in {Session("ec2_create_security_group", "create"),
              Session("ec2_list_all", "name_filter")}

\* what one answer makes the script print
Printed(r, msg) ==
  out \o r.said \o (IF msg = "" THEN <<>> ELSE <<[msg |-> msg, id |-> 0]>>)

\* the same prompt is put again
Again(t, r, msg) ==
  /\ tty' = [t EXCEPT !.asked = @ + 1, !.typed = @ + 1, !.retries = r.retries]
  /\ out' = Printed(r, msg)
  /\ UNCHANGED <<ec2, log, faulted>>

\* the script goes on to another prompt, or ends
Goes(t, r, pc, msg) ==
  /\ tty' = [t EXCEPT !.pc = pc, !.typed = @ + 1, !.asked = 0, !.retries = 0]
  /\ out' = Printed(r, msg)
  /\ UNCHANGED <<ec2, log, faulted>>

\* break out of the loop of ingress rules, or of the loop of egress rules
Break(t, r) ==
  IF t.direction = "ingress"
    THEN Goes([t EXCEPT !.direction = "egress", !.attempts = 0], r, "create", "")
    ELSE Goes(t, r, "done", "")

Typing(pc) ==
  /\ tty.pc = pc
  /\ tty.typed < MaxTyped
  /\ UNCHANGED <<operation, step, crashed, runs, files, race, listing>>

Noted(t, r, prompt) == [t EXCEPT !.exhausted = IF r.exhausted THEN prompt ELSE @]

\* "Do you want to create an ingress rule? (yes/no): ", and the egress one
AnswerCreate ==
  /\ Typing("create")
  /\ \E a \in YesNoAnswers :
        Let(prompt_with_retries(tty.retries, a, Text("no")), LAMBDA r :
           IF r.ret = Text("no") THEN Break(tty, r)
           ELSE IF r.ret = Text("yes")
             THEN tty.attempts < MaxRules /\ Goes(tty, r, "protocol", "")
           ELSE Again(tty, r, ""))

\* prompt_protocol and the test of its result
AnswerProtocol ==
  /\ Typing("protocol")
  /\ \E a \in ProtocolAnswers :
        Let(prompt_with_retries(tty.retries, a, Text("no")), LAMBDA r :
           IF r.ret = Text("no")
             THEN Goes(Noted(tty, r, "protocol"), r, "exited",
                       "Maximum retries reached for protocol input. Exiting the script.")
           ELSE IF r.ret \in {Text("tcp"), Text("udp")}
             THEN Goes([tty EXCEPT !.protocol = r.ret.t], r, "port", "")
           ELSE Again(tty, r, "Invalid protocol. Please enter 'tcp' or 'udp'."))

\* prompt_port: int("no") raises the ValueError that the loop catches, so the
\* function returns an int or does not return
AnswerPort ==
  /\ Typing("port")
  /\ \E a \in PortAnswers :
        Let(prompt_with_retries(tty.retries, a, Text("no")), LAMBDA r :
           IF r.ret = Pending THEN Again(tty, r, "")
           ELSE IF r.ret.kind # "int"
             THEN Again(Noted(tty, r, "port"), r,
                        "Please enter a valid integer for the port number.")
           ELSE IF 0 <= r.ret.n /\ r.ret.n <= 65535
             THEN Goes([tty EXCEPT !.port = r.ret.n], r, "source", "")
           ELSE Again(tty, r, "Port number must be between 0 and 65535."))

\* client.authorize_security_group_ingress(GroupId=..., IpPermissions=[...]) and
\* its egress counterpart; the provider refuses a rule it holds already and an
\* address range that is none
authorize(c, F, direction, permission) ==
  Let(c.ec2, LAMBDA e :
  Let(permission.source, LAMBDA src :
     Mutate(c, F, "authorize_security_group_" \o direction, RuleGroup.id,
            F3("protocol", permission.protocol, "port", permission.port, "source", src), "",
            /\ \A g \in e.sgs : permission \notin g[direction]
            /\ src.kind = "cidr" => (\A i \in 1..4 : src.octets[i] <= 255) /\ src.prefix <= 32,
            [e EXCEPT !.sgs = {[g EXCEPT ![direction] = @ \cup {permission}] : g \in @}],
            0)))

\* the loop of create_ingress_rule / create_egress_rule that asks for the source,
\* the request that follows it, and the prompt after the rule
AnswerSource ==
  /\ Typing("source")
  /\ \E a \in SourceAnswers, F \in (IF faulted THEN {{}} ELSE {{}, {Len(log) + 1}}) :
        Let(prompt_with_retries(tty.retries, a, Text("no")), LAMBDA r :
        Let(authorize([ec2 |-> ec2, log |-> log, out |-> out, crashed |-> FALSE,
                       files |-> files, step |-> 1], F, tty.direction,
                      [protocol |-> tty.protocol, port |-> tty.port, source |-> r.ret]),
            LAMBDA m :
           IF r.ret = Pending THEN Again(tty, r, "")
           ELSE IF r.ret = Text("no")
             THEN Goes(Noted(tty, r, "source"), r, "exited",
                       "Maximum retries reached. Exiting the script.")
           ELSE IF is_valid_cidr(r.ret) \/ is_valid_security_group_id(r.ret)
             THEN /\ tty' = [tty EXCEPT !.pc = "another", !.typed = @ + 1, !.asked = 0, !.retries = 0,
                                        !.attempts = @ + 1]
                  /\ ec2' = m.c.ec2
                  /\ log' = m.c.log
                  /\ faulted' = (faulted \/ Injected(m.c.log))
                  /\ out' = Append(out, IF m.err
                                           THEN [msg |-> "An error occurred while adding rule", id |-> 0]
                                           ELSE [msg |-> "Total rules now", id |-> tty.attempts + 1])
           ELSE Again(tty, r, "Invalid input. Please enter a valid CIDR block or Security Group ID.")))

\* "Do you want to create another ingress rule? (yes/no): "
AnswerAnother ==
  /\ Typing("another")
  /\ \E a \in YesNoAnswers :
        Let(prompt_with_retries(tty.retries, a, Text("no")), LAMBDA r :
           IF r.ret = Pending THEN Again(tty, r, "")
           ELSE IF r.ret = Text("yes") THEN Goes(tty, r, "create", "")
           ELSE Break(tty, r))

\* ec2_list_all.py: name_filter = prompt_with_retries(...), None when exhausted
AnswerNameFilter ==
  /\ Typing("name_filter")
  /\ \E a \in NameAnswers :
        Let(prompt_with_retries(tty.retries, a, Empty), LAMBDA r :
           IF r.ret = Pending THEN Again(tty, r, "")
           ELSE Goes([Noted(tty, r, "name_filter") EXCEPT !.name_filter = r.ret], r, "state", ""))

\* one turn of the loop of select_instance_state
select_instance_state(t, sis_choice) ==
  IF sis_choice.kind # "int"
    THEN [t |-> t, msg |-> "Invalid input. Please enter a number."]
  ELSE IF 1 <= sis_choice.n /\ sis_choice.n <= Len(INSTANCE_STATES)
    THEN [t |-> [t EXCEPT !.state_filter = INSTANCE_STATES[sis_choice.n]], msg |-> ""]
  ELSE [t |-> t, msg |-> "Invalid choice. Please select a valid number."]

AnswerState ==
  /\ Typing("state")
  /\ \E a \in StateAnswers :
        Let(select_instance_state(tty, a), LAMBDA x :
           IF x.msg = "" THEN Goes(x.t, [said |-> <<>>], "listing", "")
           ELSE Again(x.t, [retries |-> 0, said |-> <<>>], x.msg))

NextPrompt ==
  \/ AnswerCreate \/ AnswerProtocol \/ AnswerPort \/ AnswerSource \/ AnswerAnother
  \/ AnswerNameFilter \/ AnswerState

SpecPrompt == InitPrompt /\ [][NextPrompt]_vars

(***************************************************************************)
(* SpecEntry: the prompts at the start of ec2_create_security_group.py,    *)
(* ec2_list_key_pairs.py and vpc_list_subnets.py.  One action per prompt:  *)
(* the operator types a line and the script asks again, goes on to its     *)
(* next prompt, or leaves the prompts with what it has got.                *)
(***************************************************************************)
\* return "no"
No == <<"n", "o">>

EntryAnswers == {Empty, Text(No), Text(<<"N", "O">>), Text(<<"w">>), Text(<<"*">>)}

\* `typed`: the non-empty lines the operator has typed; `entered`: the values
\* the script has taken from its prompts; `gave_up`: prompt_with_retries has
\* come to its last line
Entry(script, pc) ==
  [script |-> script, pc |-> pc, retries |-> 0, typed |-> <<>>, entered |-> <<>>,
   gave_up |-> FALSE]

InitEntry ==
  /\ tty \in {Entry("ec2_create_security_group", "group_name"),
              Entry("ec2_list_key_pairs", "search_term"),
              Entry("vpc_list_subnets", "name_filter")}
  /\ ec2 = EmptyEc2
  /\ operation = "none"
  /\ step = 0
  /\ crashed = FALSE
  /\ log = <<>>
  /\ out = <<>>
  /\ runs = 0
  /\ faulted = FALSE
  /\ files = {}
  /\ race = <<>>
  /\ listing = NoListing

\* the line typed at a prompt and what prompt_with_retries makes of it
Lines == {[typed |-> a, r |-> prompt_with_retries(tty.retries, a, Text(No))] : a \in EntryAnswers}

\* the value prompt_with_retries returns, once it returns
Value(l) == IF l.r.ret = Pending THEN <<>> ELSE l.r.ret.t

\* the session after one line at a prompt: the prompt is put again, or the
\* script does with the returned value what `taken` says
Prompted(l, taken) ==
  /\ tty' = [tty EXCEPT !.typed = IF l.typed = Empty THEN @ ELSE Append(@, l.typed.t),
                        !.gave_up = l.r.exhausted,
                        !.retries = l.r.retries,
                        !.pc = IF l.r.ret = Pending THEN @ ELSE taken.pc,
                        !.entered = IF l.r.ret = Pending THEN @ ELSE @ \o taken.entered]
  /\ out' = out \o l.r.said \o (IF l.r.ret = Pending THEN <<>> ELSE taken.said)
  /\ UNCHANGED <<ec2, log, faulted, operation, step, crashed, runs, files, race, listing>>

\* if <value> == 'no': exit()
ExitOnNo(value, next) ==
  IF value = No THEN [pc |-> "exited", entered |-> <<>>, said |-> <<>>]
  ELSE [pc |-> next, entered |-> <<value>>, said |-> <<>>]

AnswerGroupName ==
  tty.pc = "group_name" /\ \E l \in Lines : Prompted(l, ExitOnNo(Value(l), "group_description"))

AnswerGroupDescription ==
  tty.pc = "group_description" /\ \E l \in Lines : Prompted(l, ExitOnNo(Value(l), "vpc_id"))

AnswerVpcId ==
  tty.pc = "vpc_id" /\ \E l \in Lines : Prompted(l, ExitOnNo(Value(l), "tag_value"))

AnswerTagValue ==
  tty.pc = "tag_value" /\ \E l \in Lines :
     Prompted(l, ExitOnNo(Value(l), "security_group_exists"))

\* ec2_list_key_pairs.py: if search_term.lower() != "no": list_key_pairs(ec2, search_term)
AnswerSearchTerm ==
  tty.pc = "search_term" /\ \E l \in Lines :
     Prompted(l, IF lower(Value(l)) # No
                   THEN [pc |-> "list_key_pairs", entered |-> <<Value(l)>>, said |-> <<>>]
                   ELSE [pc |-> "ended", entered |-> <<>>,
                         said |-> <<[msg |-> "No valid input provided.", id |-> 0]>>])

\* vpc_list_subnets.py: filter_subnets_by_name(all_subnets,
\*                          name_filter if name_filter != "no" else "*")
AnswerSubnetFilter ==
  tty.pc = "name_filter" /\ \E l \in Lines :
     Prompted(l, [pc |-> "filter_subnets_by_name",
                  entered |-> <<IF Value(l) # No THEN Value(l) ELSE <<"*">>>>,
                  said |-> <<>>])

NextEntry ==
  \/ AnswerGroupName \/ AnswerGroupDescription \/ AnswerVpcId \/ AnswerTagValue
  \/ AnswerSearchTerm \/ AnswerSubnetFilter

SpecEntry == InitEntry /\ [][NextEntry]_vars

(***************************************************************************)
(* Vocabulary of the properties.                                           *)
(***************************************************************************)
HasTag(r, key) == \E t \in r.tags : t[1] = key

\* the VPCs that match the configured (CIDR, Name, Environment) triple
MatchingVpcs(e) ==
  {v \in e.vpcs : /\ v.cidr = CIDR_BLOCK
                  /\ <<"Name", TAG_VPC_NAME>> \in v.tags
                  /\ <<"Environment", TAG_ENV>> \in v.tags}

CreationApis ==
  {"create_vpc", "create_subnet", "create_route_table", "associate_route_table",
   "create_internet_gateway", "attach_internet_gateway", "create_route",
   "create_security_group", "create_key_pair"}

\* the query answered that nothing matches
NotFound(q) == (q.ok /\ q.n = 0) \/ (~q.ok /\ q.diag = "InvalidKeyPair.NotFound")

\* the query itself failed
QueryFailed(q) == ~q.ok /\ q.diag # "InvalidKeyPair.NotFound"

\* q asks whether the very resource that request r creates is there already
IsExistenceCheckFor(q, r) ==
  CASE r.api = "create_vpc"              -> q.api = "describe_vpcs" /\ q.flt = r.flt
    [] r.api = "create_subnet"           -> q.api = "describe_subnets" /\ q.flt = r.flt
    [] r.api = "create_route_table"      -> q.api = "describe_route_tables" /\ q.flt = r.flt
    [] r.api = "create_internet_gateway" -> q.api = "describe_internet_gateways"
                                            /\ q.flt = r.flt
    [] r.api = "create_security_group"   -> q.api = "describe_security_groups"
                                            /\ q.flt = r.flt
    [] r.api = "create_key_pair"         -> q.api = "describe_key_pairs" /\ q.flt = r.flt
    [] r.api = "associate_route_table"   -> q.api = "describe_route_tables"
                                            /\ "association.subnet-id" \in DOMAIN q.flt
    [] r.api = "attach_internet_gateway" -> q.api = "describe_internet_gateways"
                                            /\ "attachment.vpc-id" \in DOMAIN q.flt
    [] r.api = "create_route"            -> q.api = "describe_route_tables"
                                            /\ "route.destination-cidr-block" \in DOMAIN q.flt
    [] OTHER                             -> FALSE

\* the resources the runs have created
Created(S) == {r \in S : r.id >= FirstFreshId}

CreateGatedBy(api) ==
  CASE api = "describe_vpcs"              -> "create_vpc"
    [] api = "describe_route_tables"      -> "create_route_table"
    [] api = "describe_internet_gateways" -> "create_internet_gateway"
    [] api = "describe_security_groups"   -> "create_security_group"
    [] api = "describe_key_pairs"         -> "create_key_pair"
    [] OTHER                              -> "none"

\* C2: when the existence query of a gated create path (VPC, route table,
\* internet gateway, security group, key pair) fails, the path issues no create
\* request for that resource.
C2_FailedQueryBlocksCreate ==
  \A i \in DOMAIN log :
     (QueryFailed(log[i]) /\ i + 1 \in DOMAIN log)
       => log[i + 1].api # CreateGatedBy(log[i].api)

(***************************************************************************)
(* C3                                                                      *)
(***************************************************************************)
\* the order of section 4.2
ClaimedRank(api) ==
  CASE api = "delete_route"             -> 1
    [] api = "disassociate_route_table" -> 2
    [] api = "delete_route_table"       -> 3
    [] api = "detach_internet_gateway"  -> 4
    [] api = "delete_internet_gateway"  -> 5
    [] api = "delete_subnet"            -> 6
    [] api = "delete_vpc"               -> 7
    [] OTHER                            -> 0

\* the order of the statements of main()
TeardownRank(api) ==
  CASE api = "delete_route"             -> 1
    [] api = "detach_internet_gateway"  -> 2
    [] api = "delete_internet_gateway"  -> 3
    [] api = "disassociate_route_table" -> 4
    [] api = "delete_route_table"       -> 5
    [] api = "delete_subnet"            -> 6
    [] api = "delete_vpc"               -> 7
    [] OTHER                            -> 0

\* C3 as stated: the mutations of a teardown are issued in the order delete
\* route, disassociate, delete route table, detach gateway, delete gateway,
\* delete subnets, delete network.
C3_ClaimedOrder ==
  operation = "delete" =>
    \A i, j \in DOMAIN log :
       (i < j /\ ClaimedRank(log[i].api) > 0 /\ ClaimedRank(log[j].api) > 0)
         => ClaimedRank(log[i].api) <= ClaimedRank(log[j].api)

\* C3 (amended): the mutations of a teardown are issued in the order delete
\* route, detach gateway, delete gateway, disassociate the non-main
\* associations, delete route table, delete subnets, delete network; no step's
\* provider call is issued before the call of an earlier step in this order.
C3_TeardownOrder ==
  operation = "delete" =>
    LET mutations == SelectSeq(log, LAMBDA q : TeardownRank(q.api) > 0)
    IN \A i \in 1..(Len(mutations) - 1) :
          TeardownRank(mutations[i].api) <= TeardownRank(mutations[i + 1].api)

\* a teardown in which every one of the seven mutations was carried out
C3_FullTeardown ==
  /\ operation = "delete"
  /\ step = 7
  /\ \A k \in 1..7 : \E i \in DOMAIN log : TeardownRank(log[i].api) = k /\ log[i].ok

Lookups == {"describe_vpcs", "describe_subnets", "describe_route_tables",
            "describe_internet_gateways"}

C5_MainAssociationKept ==
  [][At("delete", 3) =>
       /\ \A i \in DOMAIN log' :
             (i > Len(log) /\ log'[i].api = "disassociate_route_table")
               => ~\E a \in ec2.assocs : a.id = log'[i].id /\ a.main
       /\ \A a \in ec2.assocs : a.main => a \in ec2'.assocs]_vars

\* the function has removed a non-main association of a table that also has a
\* main one
C5_MixedTable ==
  /\ operation = "delete"
  /\ step = 4
  /\ \E i, k \in DOMAIN log :
        /\ log[k].api = "describe_route_tables"
        /\ "route-table-id" \in DOMAIN log[k].flt
        /\ log[i].api = "disassociate_route_table"
        /\ log[i].ok
        /\ \E a \in ec2.assocs : a.main /\ a.rtb = log[k].flt["route-table-id"]

(***************************************************************************)
(* C6                                                                      *)
(***************************************************************************)
\* C6: when two invocations of the create-VPC path interleave so that both
\* existence checks run before either create_vpc and neither reports a VPC,
\* both issue create_vpc, and when both requests are served the provider holds
\* two VPCs with distinct IDs that match the same (CIDR, Name, Environment).
C6_BothCreate ==
  \A p, q \in Procs :
     (/\ p # q
      /\ race[p].check > 0 /\ ~race[p].exists
      /\ race[q].check > 0 /\ ~race[q].exists
      /\ race[p].pc = "done"
      /\ race[q].pc = "done"
      /\ ~(race[p].create > 0 /\ race[p].create < race[q].check)
      /\ ~(race[q].create > 0 /\ race[q].create < race[p].check))
       => /\ race[p].create > 0
          /\ race[q].create > 0
          /\ log[race[p].create].api = "create_vpc"
          /\ log[race[q].create].api = "create_vpc"
          /\ (log[race[p].create].ok /\ log[race[q].create].ok)
               => /\ log[race[p].create].id # log[race[q].create].id
                  /\ {log[race[p].create].id, log[race[q].create].id}
                       \subseteq {v.id : v \in MatchingVpcs(ec2)}
                  /\ race[p].out = <<[msg |-> "VPC Details", id |-> log[race[p].create].id]>>

\* two invocations that found nothing before either created, and two VPCs
C6_TwoVpcs ==
  /\ race # <<>>
  /\ race[1].pc = "done"
  /\ race[2].pc = "done"
  /\ race[1].check < race[2].create
  /\ race[2].check < race[1].create
  /\ log[race[1].check].ok /\ log[race[1].check].n = 0
  /\ log[race[2].check].ok /\ log[race[2].check].n = 0
  /\ Cardinality(Created(MatchingVpcs(ec2))) = 2

C8_BothTags ==
  \A r \in Created(ec2.vpcs) \cup Created(ec2.subnets) \cup Created(ec2.rtbs)
           \cup Created(ec2.igws) \cup Created(ec2.sgs) \cup Created(ec2.keys)
           \cup Created(ec2.instances) :
     HasTag(r, "Name") /\ HasTag(r, "Environment")

\* C8 (amended): every VPC, subnet, route table, internet gateway and instance
\* the scripts have created carries a Name tag and an Environment tag; a key
\* pair carries a Name tag only, and a security group carries no Environment
\* tag and no tag but the Name tag of its separate tagging request.
C8_TagsPerKind ==
  /\ \A r \in Created(ec2.vpcs) \cup Created(ec2.subnets) \cup Created(ec2.rtbs)
              \cup Created(ec2.igws) \cup Created(ec2.instances) :
        HasTag(r, "Name") /\ HasTag(r, "Environment")
  /\ \A k \in Created(ec2.keys) : k.tags = {<<"Name", k.name>>}
  /\ \A g \in Created(ec2.sgs) : g.tags \subseteq {<<"Name", GROUP_TAG>>}

\* subnets and a tagged security group that the runs have created
C8_SubnetsAndGroup ==
  /\ Created(ec2.subnets) # {}
  /\ \E g \in Created(ec2.sgs) : g.tags = {<<"Name", GROUP_TAG>>}

(***************************************************************************)
(* C9                                                                      *)
(***************************************************************************)
\* what the caller of the check was told
Verdict == out[Len(out)].msg

Named(r, name) == <<"Name", name>> \in r.tags
OfEnv(r) == <<"Environment", TAG_ENV>> \in r.tags

NamesPorts(sg) ==
  \/ \E p \in sg.ingress : p.from # "N/A" /\ p.to # "N/A"
  \/ \E p \in sg.egress : p.proto # "-1" /\ p.from # "N/A" /\ p.to # "N/A"

C11_LoopTerminates ==
  /\ [][listing.pc = "loop"
          => /\ listing'.pc = "returned" <=> (listing'.failed \/ NextToken(listing) = 0)
             /\ listing'.pc = "loop" => listing'.next_token = NextToken(listing)]_vars
  /\ <>(listing.pc = "returned")

\* list_instance_types has gone through MaxPages pages and returned on the
\* token-less last one
C11_LastPageEnds ==
  /\ listing.script = "ec2_list_instance_types"
  /\ listing.pc = "returned"
  /\ ~listing.failed
  /\ Len(listing.pages) = MaxPages
  /\ listing.next_token = 0
  /\ Len(listing.details) = MaxItems

(***************************************************************************)
(* C12                                                                     *)
(***************************************************************************)
\* a subnet or an attached internet gateway references the VPC
Referenced(e, vpc_id) ==
  \/ \E sn \in e.subnets : sn.vpc = vpc_id
  \/ \E g \in e.igws : g.vpc = vpc_id

\* C12: when delete_vpc_operation runs while a subnet or an attached internet
\* gateway still references a VPC, that VPC is still there when the operation
\* has returned, the operation does not report it as deleted, and when it was
\* the VPC that the operation asked the provider to delete, the operation
\* reports an error.
C12_DependentsBlockDelete ==
  [][At("delete", 6) =>
       \A v \in ec2.vpcs :
          Referenced(ec2, v.id) =>
            /\ v \in ec2'.vpcs
            /\ out'[Len(out')] # [msg |-> "VPC deleted successfully", id |-> v.id]
            /\ (log'[Len(log')].api = "delete_vpc" /\ log'[Len(log')].id = v.id)
                 => out'[Len(out')] = [msg |-> "Error: Error deleting VPC", id |-> v.id]]_vars

\* the provider has refused to delete a VPC that a subnet still references
C12_RefusedWithSubnet ==
  /\ operation = "delete"
  /\ step = 7
  /\ log[Len(log)].api = "delete_vpc"
  /\ ~log[Len(log)].inj
  /\ out[Len(out)] = [msg |-> "Error: Error deleting VPC", id |-> log[Len(log)].id]
  /\ \E sn \in ec2.subnets : sn.vpc = log[Len(log)].id

(***************************************************************************)
(* C13                                                                     *)
(***************************************************************************)
\* the lookups that resolve what a dependent mutation is applied to
Upstream(api) ==
  CASE api \in {"create_route_table", "create_subnet"} -> {"describe_vpcs"}
    [] api \in {"attach_internet_gateway", "detach_internet_gateway"} ->
         {"describe_vpcs", "describe_internet_gateways"}
    [] api = "create_route" -> {"describe_internet_gateways", "describe_route_tables"}
    [] api \in {"delete_route", "delete_route_table"} -> {"describe_route_tables"}
    [] OTHER -> {}

\* the latest request of the kind `lookup` that the operation issued before
\* its request i, 0 when there is none
LatestLookup(i, lookup) ==
  LET before == {j \in 1..(i - 1) : log[j].step = log[i].step /\ log[j].api = lookup}
  IN IF before = {} THEN 0 ELSE CHOOSE j \in before : \A k \in before : k <= j

\* C13: a dependent mutation (create route table, create subnet, attach or
\* detach internet gateway, create route, delete route, delete route table) is
\* sent only when each lookup of its upstream resource (VPC, internet gateway,
\* route table) was answered and found the resource.
C13_ResolvedBeforeMutation ==
  operation \in {"create", "delete"} =>
    \A i \in DOMAIN log :
       \A lookup \in Upstream(log[i].api) :
          LET j == LatestLookup(i, lookup)
          IN j > 0 /\ log[j].ok /\ log[j].n > 0

(***************************************************************************)
(* C14                                                                     *)
(***************************************************************************)
\* the requests that step k of the 'create' branch can issue
StepApis(k) ==
  CASE k = 1 -> {"describe_vpcs", "create_vpc"}
    [] k = 2 -> {"describe_vpcs", "describe_subnets", "create_subnet"}
    [] k = 3 -> {"describe_vpcs", "describe_route_tables", "create_route_table"}
    [] k = 4 -> {"describe_route_tables", "describe_subnets", "associate_route_table"}
    [] k = 5 -> {"describe_internet_gateways", "create_internet_gateway"}
    [] k = 6 -> {"describe_vpcs", "describe_internet_gateways", "attach_internet_gateway"}
    [] k = 7 -> {"describe_internet_gateways", "describe_route_tables", "create_route"}

IdsOf(S) == {r.id : r \in S}

\* C14: the 'create' branch is a fixed sequence without retry and without
\* rollback.  The requests of a run appear step by step in the order create
\* VPC, create subnets, create route table, associate subnets, create gateway,
\* attach gateway, create route, and the run never goes back to a step; no
\* creation request is issued twice for the same resource, also not after it
\* failed; the run issues no delete, detach or disassociate request; and
\* whatever a step fails with - an error it prints, or the uncaught exception
\* with which step 3 ends the run - every resource that was there before the
\* step is still there after it.
C14_FixedSequence ==
  /\ [](operation = "create" =>
          /\ \A i \in DOMAIN log :
                /\ log[i].step \in 1..step
                /\ log[i].api \in StepApis(log[i].step)
                /\ i > 1 => log[i - 1].step <= log[i].step
          /\ \A i, j \in DOMAIN log :
                (i < j /\ log[i].api = log[j].api /\ log[i].api \in CreationApis)
                  => log[i].flt # log[j].flt)
  /\ [][(operation = "create" /\ operation' = "create" /\ runs' = runs)
          => /\ step' = step + 1
             /\ \A k \in {"vpcs", "subnets", "rtbs", "igws", "assocs"} :
                   IdsOf(ec2[k]) \subseteq IdsOf(ec2'[k])
             /\ ec2.routes \subseteq ec2'.routes]_vars

\* step 3 has ended the run with an exception; the VPC and the subnets that
\* steps 1 and 2 created are left in the provider
C14_LeftDangling ==
  /\ operation = "create"
  /\ crashed
  /\ step = 3
  /\ Created(ec2.vpcs) # {}
  /\ Cardinality(Created(ec2.subnets)) = NumSubnets

(***************************************************************************)
(* C15                                                                     *)
(***************************************************************************)
\* C15: a protocol, a port, a source or an instance state is not asked for again
\* once pwr_max_retries answers to its prompt were empty or invalid: by then the
\* script has given up the value.
C15_PromptsBounded ==
  tty.pc \in {"protocol", "port", "source", "state"} => tty.asked < pwr_max_retries

(***************************************************************************)
(* C16                                                                     *)
(***************************************************************************)
\* C16: every key pair the provider holds, all of them created by the script,
\* has its file <key name>.pem in the working directory, holding the key
\* material the provider returned, with mode 0400.
C16_KeyFileKept ==
  \A k \in ec2.keys :
     \E f \in files : f.name = k.name /\ f.key = k.id /\ f.mode = "0o400"

(***************************************************************************)
(* C17                                                                     *)
(***************************************************************************)
\* C17: a subnet that create_subnet has just created carries the Name and the
\* Environment tag that the existence query of the same call filtered on, so
\* that the same call made again finds it.
C17_TagsAsFiltered ==
  \A i \in DOMAIN log :
     (log[i].api = "create_subnet" /\ log[i].ok)
       => \E q \in 1..(i - 1), s \in ec2.subnets :
             /\ log[q].api = "describe_subnets"
             /\ s.id = log[i].id
             /\ s.tags = Tags(log[q].flt["tag:Name"], log[q].flt["tag:Environment"])
             /\ Matches(s, log[q].flt)

(***************************************************************************)
(* C18                                                                     *)
(***************************************************************************)
\* the name matches the pattern as a glob: each '*' stands for any text, every
\* other character for itself
RECURSIVE GlobFromEnd(_, _)
GlobFromEnd(name, pattern) ==
  IF pattern = <<>> THEN name = <<>>
  ELSE LET front == SubSeq(pattern, 1, Len(pattern) - 1)
       IN IF pattern[Len(pattern)] = "*"
            THEN \E k \in 0..Len(name) : GlobFromEnd(SubSeq(name, 1, k), front)
            ELSE /\ name # <<>>
                 /\ name[Len(name)] = pattern[Len(pattern)]
                 /\ GlobFromEnd(SubSeq(name, 1, Len(name) - 1), front)

\* upper and lower case are not told apart
Folded(text) == [i \in DOMAIN text |-> IF text[i] = "A" THEN "a" ELSE text[i]]

OwnName(r) ==
  IF "name" \in DOMAIN r THEN r.name
  ELSE IF \E t \in r.tags : t[1] = "Name" THEN (CHOOSE t \in r.tags : t[1] = "Name")[2]
  ELSE <<>>

\* C18: after a search, a resource that has a name (an instance: one in the state
\* asked for) is printed if and only if its name matches the pattern as a
\* case-insensitive glob, whatever its other attributes are.
C18_NameFilterExact ==
  tty.pc = "searched"
    => \A kind \in SearchKinds : \A r \in ec2[kind] :
          (/\ OwnName(r) # <<>>
           /\ kind = "instances" => r.state = tty.state_filter)
            => ((\E i \in DOMAIN out : out[i].id = r.id)
                  <=> GlobFromEnd(Folded(OwnName(r)), Folded(tty.pattern)))

(***************************************************************************)
(* C19                                                                     *)
(***************************************************************************)
\* C19: once the operator has left the port prompt empty pwr_max_retries times
\* in a row, the script has printed "Maximum retries reached for port input"
\* and has exited; it is not at a prompt.
C19_PortExhaustionExits ==
  tty.exhausted = "port"
    => /\ tty.pc = "exited"
       /\ \E i \in DOMAIN out :
             out[i].msg = "Maximum retries reached for port input. Exiting the script."

(***************************************************************************)
(* C20                                                                     *)
(***************************************************************************)
\* an IPv4 address range: four octets of 0..255 and a prefix length of 0..32
WellFormedCidr(a) ==
  /\ a.kind = "cidr"
  /\ Len(a.octets) = 4
  /\ \A i \in 1..4 : a.octets[i] \in 0..255
  /\ a.prefix \in 0..32

\* C20: every rule sent to the provider has the protocol tcp or udp, a port of
\* 0..65535, and as its source an IPv4 address range or a security group id.
C20_OnlyWellFormedRules ==
  \A i \in DOMAIN log :
     log[i].api \in {"authorize_security_group_ingress", "authorize_security_group_egress"}
       => /\ log[i].flt["protocol"] \in {"tcp", "udp"}
          /\ log[i].flt["port"] \in 0..65535
          /\ \/ WellFormedCidr(log[i].flt["source"])
             \/ is_valid_security_group_id(log[i].flt["source"])

Since(l, before) == SubSeq(l, Len(before) + 1, Len(l))

Requests(l, api) == SelectSeq(l, LAMBDA r : r.api = api)

\* the subnets whose Name tag begins with the configured prefix
PrefixedSubnets(e) ==
  {s \in e.subnets : \E t \in s.tags : t[1] = "Name" /\ StartsWith(t[2], TAG_SUBNET)}

\* C22: the association step sends one associate_route_table request per subnet
\* of the list it was given, in the order of that list, whether or not an earlier
\* request failed, and reports one result per subnet in the same order, a
\* success exactly for the requests the provider carried out.
C22_OneAttemptPerSubnet ==
  [][At("create", 3)
       => LET new == Since(log', log)
              reqs == Requests(new, "associate_route_table")
              res == SelectSeq(Since(out', out),
                               LAMBDA o : o.msg \in {"Successfully associated",
                                                     "Error: Failed to associate"})
              listed == \E i \in DOMAIN new : new[i].api = "describe_subnets" /\ new[i].ok
          IN /\ Len(reqs) = IF listed THEN Cardinality(PrefixedSubnets(ec2)) ELSE 0
             /\ {reqs[i].flt["subnet-id"] : i \in DOMAIN reqs}
                  = IF listed THEN {s.id : s \in PrefixedSubnets(ec2)} ELSE {}
             /\ \/ \A i, j \in DOMAIN reqs :
                       i < j => reqs[i].flt["subnet-id"] < reqs[j].flt["subnet-id"]
                \/ \A i, j \in DOMAIN reqs :
                       i < j => reqs[i].flt["subnet-id"] > reqs[j].flt["subnet-id"]
             /\ Len(res) = Len(reqs)
             /\ \A i \in DOMAIN reqs :
                   /\ res[i].id = reqs[i].flt["subnet-id"]
                   /\ res[i].msg = "Successfully associated" <=> reqs[i].ok]_vars

\* the first association failed and the second was carried out
C22_WentOnAfterFailure ==
  /\ operation = "create"
  /\ step = 4
  /\ LET reqs == Requests(log, "associate_route_table")
     IN Len(reqs) = NumSubnets /\ ~reqs[1].ok /\ reqs[NumSubnets].ok

(***************************************************************************)
(* C23                                                                     *)
(***************************************************************************)
\* the non-main associations of the route table that the step described
Described(l, e) ==
  {a \in e.assocs :
     /\ ~a.main
     /\ \E k \in DOMAIN l : /\ l[k].api = "describe_route_tables"
                            /\ "route-table-id" \in DOMAIN l[k].flt
                            /\ l[k].flt["route-table-id"] = a.rtb}

\* C23: when the disassociation step reports "Successfully disassociated n", n is
\* the number of non-main associations the described route table had, each of
\* them was the subject of exactly one disassociate_route_table request, and
\* none of them is left; when it reports "No non-main subnets found", the table
\* had none and no disassociate_route_table request was sent.
C23_CountIsExact ==
  [][At("delete", 3)
       => LET new == Since(log', log)
              reqs == Requests(new, "disassociate_route_table")
              nonmain == Described(new, ec2)
              said == out'[Len(out')]
          IN /\ said.msg = "Successfully disassociated"
                  => /\ said.id = Cardinality(nonmain)
                     /\ Len(reqs) = Cardinality(nonmain)
                     /\ {reqs[i].id : i \in DOMAIN reqs} = {a.id : a \in nonmain}
                     /\ \A i \in DOMAIN reqs : reqs[i].ok
                     /\ Described(new, ec2') = {}
             /\ said.msg = "No non-main subnets found"
                  => reqs = <<>> /\ nonmain = {}]_vars

C23_AllSubnetsRemoved ==
  /\ operation = "delete"
  /\ step = 4
  /\ out[Len(out)] = [msg |-> "Successfully disassociated", id |-> NumSubnets]
  /\ Len(Requests(log, "disassociate_route_table")) = NumSubnets

(***************************************************************************)
(* C24                                                                     *)
(***************************************************************************)
\* C24: a run of the key-pair script that has deleted <name>.pem and has not
\* created the key pair anew ends with no key pair of that name at the provider:
\* the file is only removed when the key pair does not exist.
C24_RemovedOnlyIfAbsent ==
  (/\ operation = "ec2_create_key_pair"
   /\ \E i \in DOMAIN out : out[i].msg = "Local key pair has been deleted."
   /\ ~\E i \in DOMAIN out : out[i].msg = "Key pair created.")
    => ~\E k \in ec2.keys : k.name = KEY_NAME

(***************************************************************************)
(* C25                                                                     *)
(***************************************************************************)
\* the requests that name a route table
RouteTableRequests ==
  {"associate_route_table", "create_route", "delete_route", "delete_route_table",
   "disassociate_route_table"}

\* C25: no request that changes a route table carries, in the place of the
\* route table id, a diagnostic text of get_route_table_id.
C25_NoDiagnosticAsId ==
  \A i \in DOMAIN log : log[i].api \in RouteTableRequests => log[i].diag = ""

(***************************************************************************)
(* C26                                                                     *)
(***************************************************************************)
\* C26: every delete_subnet request follows, in its step, a describe_subnets
\* query that the provider answered, and names a subnet id; a step whose query
\* failed sends no delete_subnet request.
C26_DeletesOnlyListed ==
  \A i \in DOMAIN log :
     log[i].api = "delete_subnet"
       => /\ log[i].diag = ""
          /\ \E q \in 1..(i - 1) : /\ log[q].api = "describe_subnets"
                                  /\ log[q].step = log[i].step
                                  /\ log[q].ok

(***************************************************************************)
(* C27                                                                     *)
(***************************************************************************)
\* what the provider holds of network n
Kept(e, n) == [k \in DOMAIN n |-> e[k] \cap n[k]]

\* C27: the teardown branch leaves the network of the other environment, which
\* uses the same Name tags in a VPC of its own, as it found it.
C27_TeardownStaysInside == Kept(ec2, OtherBuilt) = OtherBuilt

(***************************************************************************)
(* C28                                                                     *)
(***************************************************************************)
\* the resources of the network that runs of the builder have created and the
\* provider still holds
Remaining(e) ==
  [vpcs |-> Created(e.vpcs), subnets |-> Created(e.subnets), rtbs |-> Created(e.rtbs),
   assocs |-> Created(e.assocs), igws |-> Created(e.igws),
   routes |-> {r \in e.routes : r.rtb >= FirstFreshId \/ r.gw >= FirstFreshId}]

NothingRemains(e) == \A k \in DOMAIN Remaining(e) : Remaining(e)[k] = {}

\* a 'delete' run has come to its end, and no provider call of this or of an
\* earlier run has met a fault
TornDown == operation = "delete" /\ step = 7 /\ ~faulted /\ ~crashed

\* the account holds nothing but what runs of the builder have created
Alone(e) ==
  /\ \A k \in {"vpcs", "rtbs", "assocs"} : \A r \in e[k] : r.id >= FirstFreshId
  /\ e.sgs = {} /\ e.instances = {}

\* C28: create followed by delete is a round trip.  When no provider call has
\* failed, or the account holds nothing beside the configured network, the end
\* of the 'delete' branch leaves the provider without any VPC, subnet, route
\* table, association, route or internet gateway that a 'create' run before it
\* has created.
C28_RoundTrip ==
  (TornDown /\ (Alone(ec2) \/ \A i \in DOMAIN log : log[i].ok)) => NothingRemains(ec2)

\* the teardown has deleted the route, the gateway, the route table, every
\* subnet and the VPC that the 'create' run before it had created in an empty
\* account, and the account is empty again
C28_BuiltAndRemoved ==
  /\ TornDown
  /\ \A i \in DOMAIN log : log[i].ok
  /\ \A k \in DOMAIN ec2 : k # "next" => ec2[k] = {}
  /\ \A a \in {"delete_route", "delete_internet_gateway", "delete_route_table", "delete_vpc"} :
        \E i \in DOMAIN log : log[i].api = a /\ log[i].id >= FirstFreshId
  /\ Len(SelectSeq(log, LAMBDA q : q.api = "delete_subnet")) = NumSubnets

(***************************************************************************)
(* C29                                                                     *)
(***************************************************************************)
AtMostOne(S) == Cardinality(S) <= 1

\* C29: as long as no provider call has failed, runs of the builder one after
\* the other leave at most one VPC that matches the configured (CIDR, Name,
\* Environment), at most one subnet for each configured (CIDR, availability
\* zone, Name), at most one route table and at most one internet gateway with
\* the configured Name and Environment tags.
C29_NoDuplicates ==
  ~faulted =>
     /\ AtMostOne(MatchingVpcs(ec2))
     /\ \A k \in 1..NumSubnets :
           AtMostOne({n \in ec2.subnets : /\ n.cidr = CIDR_PUBLIC_SUBNETS[k]
                                         /\ n.az = AVAILABILITY_ZONES[k]
                                         /\ Named(n, TAG_SUBNETS[k])})
     /\ AtMostOne({t \in ec2.rtbs : Named(t, TAG_RTB) /\ OfEnv(t)})
     /\ AtMostOne({g \in ec2.igws : Named(g, TAG_IGW_NAME) /\ OfEnv(g)})

\* the second 'create' run has come to its end in the account that the first
\* one had built: every resource is there once
C29_BuiltTwice ==
  /\ runs = 2 /\ operation = "create" /\ step = 7 /\ ~faulted
  /\ \A i \in DOMAIN log : log[i].api \notin {"create_vpc", "create_subnet",
                                                "create_route_table", "create_internet_gateway"}
  /\ Cardinality(Created(MatchingVpcs(ec2))) = 1
  /\ Cardinality(Created(ec2.subnets)) = NumSubnets
  /\ Cardinality(Created(ec2.rtbs)) = 1
  /\ Cardinality(Created(ec2.igws)) = 1

(***************************************************************************)
(* C30                                                                     *)
(***************************************************************************)
\* C30: a prompt tells a typed value from the end of the retries.  Every
\* non-empty line the operator types, the text 'no' included, is the value the
\* script goes on with, and the script exits, prints 'No valid input provided.'
\* or falls back to '*' only when prompt_with_retries has given up.
C30_TypedIsEntered ==
  /\ tty.entered = tty.typed \/ tty.gave_up
  /\ tty.pc \in {"exited", "ended"} => tty.gave_up

====
